---- MODULE Spec2Model ----
(***************************************************************************)
(* Sparse-array operation library of lalcheck                              *)
(* (lalcheck/ai/domain_ops/sparse_array_ops.py) over the sparse-array      *)
(* domain SparseArray(Intervals, Intervals, max_elems), the signatures,    *)
(* definition providers and type interpreters of                           *)
(* lalcheck/ai/interpretations.py, and the lowering of                     *)
(* lalcheck/ai/irs/basic/frontends/lal/codegen.py.                         *)
(*                                                                         *)
(* An interval is Bot or a pair <<lo, hi>>; an abstract array is a         *)
(* sequence of entries <<indexSlice, elem>>; a domain is the record        *)
(* [index_dom, elem_dom, has_split, max_elems, collapse].                  *)
(***************************************************************************)
EXTENDS Integers, Sequences, FiniteSets, TLC

VARIABLES
    domain,   \* the SparseArray domain object the operations are built for
    arr,      \* the current abstract array
    steps,    \* the number of (index, value) pairs written into arr so far
    last,     \* the last operation applied: its name, arguments and result
    def_dict, \* the dictionary of definitions given to dict_to_provider
    memo,     \* the cache of default_type_interpreter: source type -> interpretation
    objects,  \* the TypeInterpretation objects created so far, in creation order
    returned  \* the pairs <<source type, interpretation>> returned to the requests so far

vars == <<domain, arr, steps, last, def_dict, memo, objects, returned>>

\* the state of the array domain, of the type interpreter, and what the operations of
\* each part leave alone
array_vars == <<domain, arr, steps>>

interp_vars == <<memo, objects, returned>>

not_array_vars == <<def_dict, interp_vars>>

not_sig_vars == <<array_vars, interp_vars>>

not_interp_vars == <<array_vars, def_dict>>

\* no definition registered
SigIdle == def_dict = {}

\* no type interpreted
InterpIdle == memo = <<>> /\ objects = <<>> /\ returned = <<>>

NotArrayInit == SigIdle /\ InterpIdle

----------------------------------------------------------------------------
(* Bounds of the model.                                                    *)

\* the small index domain is Intervals(0, IdxHi)
IdxHi == 2
\* the small element domain is Intervals(0, ElemHi)
ElemHi == 1
\* the index domain used with the interpreter's max_elems is Intervals(0, CapIdxHi)
CapIdxHi == 16
\* at most MaxSteps (index, value) pairs are written into an array
MaxSteps == 2
\* at most MaxDefs definitions are registered in a dictionary of definitions
MaxDefs == 2
\* hashes are the naturals below HashMod
HashMod == 5
\* at most MaxRequests types are requested from the type interpreter
MaxRequests == 3

(* Program constants.                                                      *)

\* max_elems of the array domain built by the array type interpreter
max_elems == 15
\* the domain of the documented examples is Intervals(-DocHi, DocHi)
DocHi == 10

----------------------------------------------------------------------------
(* Boolean lattice (boolean_ops): the four subsets of BOOLEAN.             *)

none == {}
true == {TRUE}
false == {FALSE}
both == {TRUE, FALSE}
Boolean_join(a, b) == a \cup b

----------------------------------------------------------------------------
(* Interval lattice Intervals(lo, hi); d is the record [lo, hi].           *)

Bot == <<>>

I_top(d) == <<d.lo, d.hi>>

I_values(d) == {Bot} \cup {x \in (d.lo..d.hi) \X (d.lo..d.hi) : x[1] <= x[2]}

I_is_empty(x) == x = Bot

I_size(x) == IF x = Bot THEN 0 ELSE x[2] - x[1] + 1

I_le(a, b) == a = Bot \/ (b # Bot /\ b[1] <= a[1] /\ a[2] <= b[2])

I_join(a, b) ==
    IF a = Bot THEN b
    ELSE IF b = Bot THEN a
    ELSE <<IF a[1] < b[1] THEN a[1] ELSE b[1], IF a[2] > b[2] THEN a[2] ELSE b[2]>>

I_meet(a, b) ==
    IF a = Bot \/ b = Bot THEN Bot
    ELSE IF a[1] > b[2] \/ b[1] > a[2] THEN Bot
    ELSE <<IF a[1] > b[1] THEN a[1] ELSE b[1], IF a[2] < b[2] THEN a[2] ELSE b[2]>>

\* split(x, y): the parts of x left and right of y; a part may be empty
I_split(d, x, y) ==
    IF y = Bot THEN <<x>>
    ELSE <<I_meet(x, IF y[1] > d.lo THEN <<d.lo, y[1] - 1>> ELSE Bot),
           I_meet(x, IF y[2] < d.hi THEN <<y[2] + 1, d.hi>> ELSE Bot)>>

\* util_ops.included(dom)(x, y)
included(x, y) ==
    IF I_is_empty(x) THEN none
    ELSE IF I_le(x, y) THEN true
    ELSE IF I_is_empty(I_meet(x, y)) THEN false
    ELSE both

----------------------------------------------------------------------------
(* Sparse-array lattice SparseArray(index_dom, elem_dom, max_elems).       *)

RECURSIVE reduce_join(_, _)
\* reduce(dom.join, seq, acc)
reduce_join(seq, acc) ==
    IF seq = <<>> THEN acc ELSE reduce_join(Tail(seq), I_join(acc, Head(seq)))

RECURSIVE Elems(_)
\* [e for i, e in array]
Elems(array) ==
    IF array = <<>> THEN <<>> ELSE <<Head(array)[2]>> \o Elems(Tail(array))

RECURSIVE Slices(_)
\* [i for i, e in array]
Slices(array) ==
    IF array = <<>> THEN <<>> ELSE <<Head(array)[1]>> \o Slices(Tail(array))

SA_empty == <<>>

SA_is_empty(array) == array = <<>>

SA_top(D) == <<<<I_top(D.index_dom), I_top(D.elem_dom)>>>>

RECURSIVE InsertSorted(_, _)
InsertSorted(e, seq) ==
    IF seq = <<>> THEN <<e>>
    ELSE IF e[1][1] <= Head(seq)[1][1] THEN <<e>> \o seq
    ELSE <<Head(seq)>> \o InsertSorted(e, Tail(seq))

RECURSIVE SortEntries(_)
SortEntries(seq) ==
    IF seq = <<>> THEN <<>> ELSE InsertSorted(Head(seq), SortEntries(Tail(seq)))

RECURSIVE MergeAdjacent(_)
\* merges entries whose slices are adjacent and whose elems are equal
MergeAdjacent(seq) ==
    IF Len(seq) <= 1 THEN seq
    ELSE LET rest == MergeAdjacent(Tail(seq))
             h == Head(seq)
             r == Head(rest)
         IN  IF h[2] = r[2] /\ h[1][2] + 1 = r[1][1]
             THEN <<<<<<h[1][1], r[1][2]>>, h[2]>>>> \o Tail(rest)
             ELSE <<h>> \o rest

\* collapses one pair of neighbouring entries by joining their components
CollapseOnce(D, seq) ==
    LET n == Len(seq)
        k == IF D.collapse = "head" THEN 1 ELSE n - 1
        merged == <<I_join(seq[k][1], seq[k + 1][1]), I_join(seq[k][2], seq[k + 1][2])>>
    IN  SubSeq(seq, 1, k - 1) \o <<merged>> \o SubSeq(seq, k + 2, n)

RECURSIVE EnforceMaxElems(_, _)
EnforceMaxElems(D, seq) ==
    IF Len(seq) <= D.max_elems THEN seq
    ELSE EnforceMaxElems(D, MergeAdjacent(CollapseOnce(D, seq)))

NonEmptySlice(e) == ~I_is_empty(e[1])

\* merge and sort without the max_elems cap
NormalizedUncapped(array) == MergeAdjacent(SortEntries(SelectSeq(array, NonEmptySlice)))

normalized(D, array) == EnforceMaxElems(D, NormalizedUncapped(array))

Indices(D) == D.index_dom.lo..D.index_dom.hi

\* the entries of array whose slice holds the concrete index k
Covering(array, k) == SelectSeq(array, LAMBDA e : ~I_is_empty(I_meet(e[1], <<k, k>>)))

Defined(array, k) == Covering(array, k) # <<>>

ValueAt(array, k) == reduce_join(Elems(Covering(array, k)), Bot)

RECURSIVE PointEntries(_, _, _, _)
\* the entries <<(k, k), f[k]>> for the k of lo..hi that are in def, in order
PointEntries(def, f, lo, hi) ==
    IF lo > hi THEN <<>>
    ELSE (IF lo \in def THEN <<<<<<lo, lo>>, f[lo]>>>> ELSE <<>>) \o PointEntries(def, f, lo + 1, hi)

\* the normalized array that holds f[k] at each index k of def and nothing elsewhere
FromPoints(D, def, f) == normalized(D, PointEntries(def, f, D.index_dom.lo, D.index_dom.hi))

\* least upper bound: index by index, an index defined in either array is defined
SA_join(D, a, b) ==
    FromPoints(D, {k \in Indices(D) : Defined(a, k) \/ Defined(b, k)},
               [k \in Indices(D) |-> I_join(ValueAt(a, k), ValueAt(b, k))])

RECURSIVE MeetRow(_, _)
\* the non-empty meets of the entry ea with the entries of b
MeetRow(ea, b) ==
    IF b = <<>> THEN <<>>
    ELSE LET i == I_meet(ea[1], Head(b)[1])
             e == I_meet(ea[2], Head(b)[2])
         IN  (IF I_is_empty(i) \/ I_is_empty(e) THEN <<>> ELSE <<<<i, e>>>>) \o MeetRow(ea, Tail(b))

RECURSIVE SA_meet(_, _, _)
\* greatest lower bound: entry by entry, the meets of the slices with the meets of the
\* elems, for the pairs of entries where neither meet is empty
SA_meet(D, a, b) ==
    IF a = <<>> THEN <<>> ELSE MeetRow(Head(a), b) \o SA_meet(D, Tail(a), b)

SA_le(D, a, b) ==
    \A k \in Indices(D) :
        Defined(a, k) => Defined(b, k) /\ I_le(ValueAt(a, k), ValueAt(b, k))

RECURSIVE reduce_SA_join(_, _, _)
\* reduce(domain.join, arrs) continued from acc
reduce_SA_join(D, arrs, acc) ==
    IF arrs = <<>> THEN acc ELSE reduce_SA_join(D, Tail(arrs), SA_join(D, acc, Head(arrs)))

----------------------------------------------------------------------------
(* sparse_array_ops: the forward operations.                               *)

\* get that takes the entries whose slice includes index, not those that meet it
get_included(D, array, index) ==
    LET relevant == Elems(SelectSeq(array, LAMBDA elem : I_le(index, elem[1])))
    IN  reduce_join(relevant, Bot)

\* get(domain)(array, index)
get(D, array, index) ==
    LET relevant == Elems(SelectSeq(array, LAMBDA elem : ~I_is_empty(I_meet(index, elem[1]))))
    IN  reduce_join(relevant, Bot)

RECURSIVE updated_relevant_unsplit(_, _, _)
\* updated_relevant that keeps the whole slice of each relevant entry
updated_relevant_unsplit(D, relevant, indices) ==
    IF relevant = <<>> THEN <<>>
    ELSE <<Head(relevant)>> \o updated_relevant_unsplit(D, Tail(relevant), indices)

RECURSIVE updated_relevant(_, _, _)
\* [(split, elem[1]) for elem in relevant for split in split(elem[0], indices)
\*  if not is_empty(split)]
updated_relevant(D, relevant, indices) ==
    IF relevant = <<>> THEN <<>>
    ELSE LET elem == Head(relevant)
             splits == SelectSeq(I_split(D.index_dom, elem[1], indices), LAMBDA s : ~I_is_empty(s))
         IN  [n \in 1..Len(splits) |-> <<splits[n], elem[2]>>]
             \o updated_relevant(D, Tail(relevant), indices)

\* do_precise that drops the relevant entries instead of splitting them
updated_do_precise_drop_relevant(D, array, val, indices) ==
    IF I_size(indices) = 1
    THEN LET not_relevant == SelectSeq(array, LAMBDA elem : I_is_empty(I_meet(indices, elem[1])))
         IN  normalized(D, not_relevant \o <<<<indices, val>>>>)
    ELSE SA_join(D, array, <<<<indices, val>>>>)

\* do_precise that does not enforce max_elems on the single-index path
updated_do_precise_uncapped(D, array, val, indices) ==
    IF I_size(indices) = 1
    THEN LET not_relevant == SelectSeq(array, LAMBDA elem : I_is_empty(I_meet(indices, elem[1])))
             relevant == SelectSeq(array, LAMBDA elem : ~I_is_empty(I_meet(indices, elem[1])))
         IN  NormalizedUncapped(not_relevant \o updated_relevant(D, relevant, indices)
                                \o <<<<indices, val>>>>)
    ELSE SA_join(D, array, <<<<indices, val>>>>)

\* updated(domain).do_precise(array, val, indices)
updated_do_precise(D, array, val, indices) ==
    IF I_size(indices) = 1
    THEN LET not_relevant == SelectSeq(array, LAMBDA elem : I_is_empty(I_meet(indices, elem[1])))
             relevant == SelectSeq(array, LAMBDA elem : ~I_is_empty(I_meet(indices, elem[1])))
         IN  normalized(D, not_relevant \o updated_relevant(D, relevant, indices)
                           \o <<<<indices, val>>>>)
    ELSE SA_join(D, array, <<<<indices, val>>>>)

\* updated(domain).do_imprecise(array, val, indices)
updated_do_imprecise(D, array, val, indices) == SA_join(D, array, <<<<indices, val>>>>)

\* updated that takes the precise path whatever the capabilities of the index domain
updated_ignoring_split(D, array, val, indices) == updated_do_precise(D, array, val, indices)

\* updated(domain)
updated(D, array, val, indices) ==
    IF D.has_split THEN updated_do_precise(D, array, val, indices)
    ELSE updated_do_imprecise(D, array, val, indices)

\* index_range(domain)(array)
index_range(D, array) == reduce_join(Slices(array), Bot)

RECURSIVE in_values_of_loop(_, _, _)
\* the loop of in_values_of(domain).do, res being the value joined so far
in_values_of_loop(x, array, res) ==
    IF array = <<>> THEN res
    ELSE LET res2 == Boolean_join(res, included(x, Head(array)[2]))
         IN  IF res2 = both THEN res2 ELSE in_values_of_loop(x, Tail(array), res2)

\* in_values_of(domain)(x, array)
in_values_of(D, x, array) == in_values_of_loop(x, array, none)

RECURSIVE PairArrays(_)
\* [[(args[i], args[i+1])] for i in range(0, len(args), 2)]
PairArrays(args) ==
    IF Len(args) < 2 THEN <<>>
    ELSE <<<<<<args[1], args[2]>>>>>> \o PairArrays(SubSeq(args, 3, Len(args)))

\* array_string that stops after the first pair
array_string_first_pair(D, args) ==
    IF Len(args) = 0 THEN SA_empty ELSE normalized(D, Head(PairArrays(args)))

\* array_string(domain)(*args)
array_string(D, args) ==
    IF Len(args) = 0 THEN SA_empty
    ELSE LET arrs == PairArrays(args)
         IN  normalized(D, reduce_SA_join(D, Tail(arrs), Head(arrs)))

----------------------------------------------------------------------------
(* sparse_array_ops: the backward operations.  A result is the record      *)
(* [none, arr, idx, val]: none is TRUE when the operation returns None.    *)

None == [none |-> TRUE, arr |-> <<>>, idx |-> Bot, val |-> Bot]

Result(array, idx, val) == [none |-> FALSE, arr |-> array, idx |-> idx, val |-> val]

\* biggest_array of inv_get: top around index_constr, res at index_constr
biggest_array(D, res, index_constr) ==
    LET splits == I_split(D.index_dom, I_top(D.index_dom), index_constr)
    IN  [n \in 1..Len(splits) |-> <<splits[n], I_top(D.elem_dom)>>] \o <<<<index_constr, res>>>>

\* do_precise that returns index_constr, not indices, when indices has several elements
inv_get_do_precise_same_index(D, res, array_constr, index_constr) ==
    LET array_meet == SA_meet(D, biggest_array(D, res, index_constr), array_constr)
        indices == reduce_join(
            Slices(SelectSeq(array_meet,
                LAMBDA iv : I_le(iv[1], index_constr) /\ I_le(iv[2], res))), Bot)
        indices_size == I_size(indices)
    IN  IF SA_is_empty(array_meet) THEN None
        ELSE IF indices_size = 0 THEN None
        ELSE IF indices_size = 1
        THEN Result(updated(D, array_constr,
                            I_meet(res, get(D, array_constr, indices)), indices),
                    indices, Bot)
        ELSE Result(array_constr, index_constr, Bot)

\* do_precise that updates with what the array holds, not with its meet with res
inv_get_do_precise_no_meet(D, res, array_constr, index_constr) ==
    LET array_meet == SA_meet(D, biggest_array(D, res, index_constr), array_constr)
        indices == reduce_join(
            Slices(SelectSeq(array_meet,
                LAMBDA iv : I_le(iv[1], index_constr) /\ I_le(iv[2], res))), Bot)
        indices_size == I_size(indices)
    IN  IF SA_is_empty(array_meet) THEN None
        ELSE IF indices_size = 0 THEN None
        ELSE IF indices_size = 1
        THEN Result(updated(D, array_constr, get(D, array_constr, indices), indices),
                    indices, Bot)
        ELSE Result(array_constr, indices, Bot)

\* inv_get(domain).do_precise(res, array_constr, index_constr)
inv_get_do_precise(D, res, array_constr, index_constr) ==
    LET array_meet == SA_meet(D, biggest_array(D, res, index_constr), array_constr)
        indices == reduce_join(
            Slices(SelectSeq(array_meet,
                LAMBDA iv : I_le(iv[1], index_constr) /\ I_le(iv[2], res))), Bot)
        indices_size == I_size(indices)
    IN  IF SA_is_empty(array_meet) THEN None
        ELSE IF indices_size = 0 THEN None
        ELSE IF indices_size = 1
        THEN Result(updated(D, array_constr,
                            I_meet(res, get(D, array_constr, indices)), indices),
                    indices, Bot)
        ELSE Result(array_constr, indices, Bot)

\* inv_get(domain).do_imprecise(res, array_constr, index_constr)
inv_get_do_imprecise(D, res, array_constr, index_constr) ==
    IF SA_is_empty(array_constr) \/ I_is_empty(index_constr) THEN None
    ELSE Result(array_constr, index_constr, Bot)

\* inv_get(domain)
inv_get(D, res, array_constr, index_constr) ==
    IF D.has_split THEN inv_get_do_precise(D, res, array_constr, index_constr)
    ELSE inv_get_do_imprecise(D, res, array_constr, index_constr)

RECURSIVE inv_index_range_entries(_, _)
\* [(meet(res, i), e) for i, e in array_constr if not is_empty(meet(res, i))]
inv_index_range_entries(res, array_constr) ==
    IF array_constr = <<>> THEN <<>>
    ELSE LET i == Head(array_constr)[1]
             e == Head(array_constr)[2]
         IN  (IF I_is_empty(I_meet(res, i)) THEN <<>> ELSE <<<<I_meet(res, i), e>>>>)
             \o inv_index_range_entries(res, Tail(array_constr))

\* inv_index_range(domain)(res, array_constr)
inv_index_range(D, res, array_constr) ==
    IF I_is_empty(res) \/ SA_is_empty(array_constr) THEN None
    ELSE Result(inv_index_range_entries(res, array_constr), Bot, Bot)

RECURSIVE expected_arr(_, _)
\* [(i, meet) for meet, (i, _) in zip(meets, array_constr) if not is_empty(meet)]
expected_arr(x_constr, array_constr) ==
    IF array_constr = <<>> THEN <<>>
    ELSE LET i == Head(array_constr)[1]
             meet == I_meet(x_constr, Head(array_constr)[2])
         IN  (IF I_is_empty(meet) THEN <<>> ELSE <<<<i, meet>>>>)
             \o expected_arr(x_constr, Tail(array_constr))

RECURSIVE meets(_, _)
\* [elem_dom.meet(x_constr, e) for i, e in array_constr]
meets(x_constr, array_constr) ==
    IF array_constr = <<>> THEN <<>>
    ELSE <<I_meet(x_constr, Head(array_constr)[2])>> \o meets(x_constr, Tail(array_constr))

\* inv_in_values_of that leaves x_constr as given for res = {True}
inv_in_values_of_same_x(D, res, x_constr, array_constr) ==
    IF I_is_empty(x_constr) \/ SA_is_empty(array_constr) \/ res = none THEN None
    ELSE IF res = true
    THEN IF SA_is_empty(expected_arr(x_constr, array_constr)) THEN None
         ELSE Result(expected_arr(x_constr, array_constr), Bot, x_constr)
    ELSE Result(array_constr, Bot, x_constr)

\* inv_in_values_of(domain)(res, x_constr, array_constr)
inv_in_values_of(D, res, x_constr, array_constr) ==
    IF I_is_empty(x_constr) \/ SA_is_empty(array_constr) \/ res = none THEN None
    ELSE IF res = true
    THEN IF SA_is_empty(expected_arr(x_constr, array_constr)) THEN None
         ELSE Result(expected_arr(x_constr, array_constr), Bot,
                     reduce_join(meets(x_constr, array_constr), Bot))
    ELSE Result(array_constr, Bot, x_constr)

----------------------------------------------------------------------------
(* The domains the operations are built for, and the values drawn.         *)

SmallDomain(hs) ==
    [index_dom |-> [lo |-> 0, hi |-> IdxHi], elem_dom |-> [lo |-> 0, hi |-> ElemHi],
     has_split |-> hs, max_elems |-> max_elems, collapse |-> "head"]

\* SparseArrayDomain(Intervals(-10, 10), Intervals(-10, 10)) of the docstrings
DocDomain ==
    [index_dom |-> [lo |-> -DocHi, hi |-> DocHi], elem_dom |-> [lo |-> -DocHi, hi |-> DocHi],
     has_split |-> TRUE, max_elems |-> max_elems, collapse |-> "head"]

\* a domain whose index domain has more than max_elems indices; c tells which
\* neighbouring entries are collapsed on overflow
CapDomain(c) ==
    [index_dom |-> [lo |-> 0, hi |-> CapIdxHi], elem_dom |-> [lo |-> 0, hi |-> ElemHi],
     has_split |-> TRUE, max_elems |-> max_elems, collapse |-> c]

Points(d) == {<<k, k>> : k \in d.lo..d.hi}

NoOp ==
    [op |-> "none", a |-> <<>>, v |-> Bot, i |-> Bot, b |-> none, args |-> <<>>,
     r |-> None, rb |-> none]

\* the array of the documented point update, and the array of the in_values_of docstring
DocArrays ==
    {<<<<I_top(DocDomain.index_dom), <<0, 0>>>>>>,
     <<<<<<-DocHi, 3>>, <<2, 3>>>>, <<<<4, DocHi>>, <<6, DocHi>>>>>>}

\* elems (0,0) and top alternating at the indices from..to, the index wide and its
\* successor holding the same elem
CapPattern(D, from, to, wide) ==
    FromPoints(D, from..to,
               [k \in Indices(D) |->
                    LET n == IF k > wide THEN k + 1 ELSE k
                    IN  IF n % 2 = 0 THEN <<0, 0>> ELSE I_top(D.elem_dom)])

\* arrays of the domain with about max_elems entries
CapArrays(D) ==
    {CapPattern(D, from, to, wide) :
        from \in {0, 1}, to \in {CapIdxHi - 2, CapIdxHi}, wide \in {-1, 7}}

----------------------------------------------------------------------------
(* Construction and update of abstract arrays, and the forward queries.    *)

Init ==
    /\ last = NoOp
    /\ NotArrayInit
    /\ \/ /\ domain \in {SmallDomain(TRUE), SmallDomain(FALSE)}
          /\ arr = SA_empty
          /\ steps = 0
       \/ /\ domain = DocDomain
          /\ arr \in DocArrays
          /\ steps = MaxSteps - 1
       \/ /\ domain \in {CapDomain("head"), CapDomain("tail")}
          /\ arr \in CapArrays(domain)
          /\ steps = MaxSteps - 1

UpdateVals(D) == IF D = DocDomain THEN Points(D.elem_dom) ELSE I_values(D.elem_dom)

UpdateIdxs(D) == IF D = DocDomain THEN Points(D.index_dom) ELSE I_values(D.index_dom)

\* arr := updated(arr, v, i)
Updated ==
    /\ steps < MaxSteps
    /\ \E v \in UpdateVals(domain), i \in UpdateIdxs(domain) :
        /\ arr' = updated(domain, arr, v, i)
        /\ last' = [NoOp EXCEPT !.op = "updated", !.a = arr, !.v = v, !.i = i,
                                !.r = Result(arr', Bot, Bot)]
    /\ steps' = steps + 1
    /\ UNCHANGED <<domain, not_array_vars>>

\* the lists of at most n (index, value) pairs of an aggregate or string literal: each
\* index a non-empty index value, each value one literal
PairLists(D, n) ==
    UNION {[1..m -> (I_values(D.index_dom) \ {Bot}) \X Points(D.elem_dom)] : m \in 0..n}

RECURSIVE Flattened(_)
\* the flattened list i_1, e_1, ..., i_n, e_n of a list of pairs
Flattened(pairs) ==
    IF pairs = <<>> THEN <<>>
    ELSE <<Head(pairs)[1], Head(pairs)[2]>> \o Flattened(Tail(pairs))

\* arr := array_string(i_1, e_1, ..., i_n, e_n)
ArrayString ==
    /\ steps = 0
    /\ \E pairs \in PairLists(domain, MaxSteps) :
        /\ arr' = array_string(domain, Flattened(pairs))
        /\ steps' = MaxSteps
        /\ last' = [NoOp EXCEPT !.op = "array_string", !.args = Flattened(pairs),
                                !.r = Result(arr', Bot, Bot)]
    /\ UNCHANGED <<domain, not_array_vars>>

Next == Updated \/ ArrayString

Spec == Init /\ [][Next]_vars

----------------------------------------------------------------------------
(* The queries: in_values_of and the backward operations, each applied     *)
(* once to an array that array_string can build.                           *)

\* the arrays array_string builds from at most MaxSteps pairs
BuiltArrays(D) == {array_string(D, Flattened(pairs)) : pairs \in PairLists(D, MaxSteps)}

InitInv ==
    /\ last = NoOp
    /\ NotArrayInit
    /\ steps = 0
    /\ \/ /\ domain = DocDomain
          /\ arr \in DocArrays
       \/ /\ domain \in {SmallDomain(TRUE), SmallDomain(FALSE)}
          /\ arr \in BuiltArrays(domain)
       \/ /\ domain \in {CapDomain("head"), CapDomain("tail")}
          /\ arr \in CapArrays(domain)

\* the expected values and constraints drawn for a query
QueryVals(D) == I_values(D.elem_dom)

QueryIdxs(D) ==
    IF D = DocDomain THEN Points(D.index_dom) \cup {Bot, I_top(D.index_dom)}
    ELSE I_values(D.index_dom)

InvGetVals(D) ==
    IF D = DocDomain THEN Points(D.elem_dom) \cup {Bot, I_top(D.elem_dom)}
    ELSE I_values(D.elem_dom)

\* in_values_of(x, arr)
InValuesOf ==
    /\ last.op = "none"
    /\ \E x \in QueryVals(domain) :
        last' = [NoOp EXCEPT !.op = "in_values_of", !.a = arr, !.v = x,
                             !.rb = in_values_of(domain, x, arr)]
    /\ UNCHANGED <<array_vars, not_array_vars>>

\* inv_get(res, arr, index_constr)
InvGet ==
    /\ last.op = "none"
    /\ \E res \in InvGetVals(domain), index_constr \in QueryIdxs(domain) :
        last' = [NoOp EXCEPT !.op = "inv_get", !.a = arr, !.v = res, !.i = index_constr,
                             !.r = inv_get(domain, res, arr, index_constr)]
    /\ UNCHANGED <<array_vars, not_array_vars>>

\* inv_index_range(res, arr)
InvIndexRange ==
    /\ last.op = "none"
    /\ \E res \in QueryIdxs(domain) :
        last' = [NoOp EXCEPT !.op = "inv_index_range", !.a = arr, !.i = res,
                             !.r = inv_index_range(domain, res, arr)]
    /\ UNCHANGED <<array_vars, not_array_vars>>

\* inv_in_values_of(res, x_constr, arr)
InvInValuesOf ==
    /\ last.op = "none"
    /\ \E res \in {none, true, false, both}, x_constr \in QueryVals(domain) :
        last' = [NoOp EXCEPT !.op = "inv_in_values_of", !.a = arr, !.b = res, !.v = x_constr,
                             !.r = inv_in_values_of(domain, res, x_constr, arr)]
    /\ UNCHANGED <<array_vars, not_array_vars>>

NextInv == InValuesOf \/ InvGet \/ InvIndexRange \/ InvInValuesOf

SpecInv == InitInv /\ [][NextInv]_vars

----------------------------------------------------------------------------
(* The forward operations, each applied once to an array that array_string *)
(* can build, bottom arguments included.                                    *)

\* get(arr, index)
Get ==
    /\ last.op = "none"
    /\ \E index \in QueryIdxs(domain) :
        last' = [NoOp EXCEPT !.op = "get", !.a = arr, !.i = index,
                             !.r = Result(arr, Bot, get(domain, arr, index))]
    /\ UNCHANGED <<array_vars, not_array_vars>>

\* index_range(arr)
IndexRange ==
    /\ last.op = "none"
    /\ last' = [NoOp EXCEPT !.op = "index_range", !.a = arr,
                            !.r = Result(arr, index_range(domain, arr), Bot)]
    /\ UNCHANGED <<array_vars, not_array_vars>>

\* arr := updated(arr, v, i), once
UpdatedOnce ==
    /\ last.op = "none"
    /\ Updated

NextFwd == Get \/ UpdatedOnce \/ IndexRange \/ InValuesOf

SpecFwd == InitInv /\ [][NextFwd]_vars


----------------------------------------------------------------------------
(* Properties of updated and array_string.                                 *)

AfterUpdated == last.op = "updated"

AfterArrayString == last.op = "array_string"

\* the array that holds val at the single index of indices and, at every other index,
\* what array holds there
PointUpdate(D, array, val, indices) ==
    FromPoints(D, {k \in Indices(D) : Defined(array, k) \/ k = indices[1]},
               [k \in Indices(D) |-> IF k = indices[1] THEN val ELSE ValueAt(array, k)])

DocPointUpdate ==
    /\ AfterUpdated
    /\ domain = DocDomain
    /\ last.a = <<<<<<-DocHi, DocHi>>, <<0, 0>>>>>>
    /\ last.v = <<5, 5>>
    /\ last.i = <<3, 3>>

\* C1: updated(arr, val, idx) is, on a domain with split and for idx of size 1, the
\* normalization of arr with the slices that meet idx split around idx and the entry
\* (idx, val) added, and join(arr, [(idx, val)]) in every other case; the documented
\* point update of [((-10,10),(0,0))] at (3,3) with (5,5) yields three entries.
C1_UpdatedResult ==
    /\ AfterUpdated =>
         last.r.arr = IF domain.has_split /\ I_size(last.i) = 1
                      THEN PointUpdate(domain, last.a, last.v, last.i)
                      ELSE SA_join(domain, last.a, <<<<last.i, last.v>>>>)
    /\ DocPointUpdate =>
         last.r.arr = <<<<<<-DocHi, 2>>, <<0, 0>>>>, <<<<3, 3>>, <<5, 5>>>>,
                        <<<<4, DocHi>>, <<0, 0>>>>>>

C1_Witness == DocPointUpdate /\ Len(last.r.arr) = 3

\* the length of the result of the last update before max_elems is enforced
UncappedLen ==
    Len(updated([domain EXCEPT !.max_elems = Cardinality(Indices(domain))],
                last.a, last.v, last.i))

\* C2: get(updated(a, v, i), i) >= v for non-empty v and i, on the split path, on the
\* join path and when max_elems forces entries to be collapsed.
C2_GetAfterUpdated ==
    (AfterUpdated /\ last.v # Bot /\ last.i # Bot) =>
        I_le(last.v, get(domain, last.r.arr, last.i))

C2_Witness ==
    /\ AfterUpdated /\ last.v # Bot /\ I_size(last.i) = 1 /\ domain.has_split
    /\ UncappedLen > domain.max_elems
    /\ I_le(last.v, get(domain, last.r.arr, last.i))

\* C3 as stated: get(updated(a, v, i), j) = get(a, j) whenever meet(i, j) is empty,
\* for every array a.
C3_FrameAlways ==
    AfterUpdated =>
        \A j \in I_values(domain.index_dom) :
            I_is_empty(I_meet(last.i, j)) =>
                get(domain, last.r.arr, j) = get(domain, last.a, j)

\* C3: get(updated(a, v, i), j) = get(a, j) whenever meet(i, j) is empty and the
\* update does not make the array exceed max_elems entries.
C3_FrameUnlessCollapsed ==
    (AfterUpdated /\ UncappedLen <= domain.max_elems) =>
        \A j \in I_values(domain.index_dom) :
            I_is_empty(I_meet(last.i, j)) =>
                get(domain, last.r.arr, j) = get(domain, last.a, j)

C3_Witness ==
    /\ AfterUpdated /\ UncappedLen <= domain.max_elems
    /\ I_size(last.i) = 1 /\ domain.has_split /\ last.v # Bot
    /\ \E j \in I_values(domain.index_dom) :
        /\ I_is_empty(I_meet(last.i, j))
        /\ get(domain, last.a, j) # Bot
        /\ get(domain, last.a, last.i) # Bot
        /\ get(domain, last.r.arr, j) = get(domain, last.a, j)
        /\ get(domain, last.r.arr, last.i) # get(domain, last.a, last.i)

\* slices in increasing order and pairwise disjoint, no slice empty, and no two
\* entries with adjacent slices and equal elems
IsNormalized(array) ==
    /\ \A n \in 1..Len(array) : ~I_is_empty(array[n][1])
    /\ \A n \in 1..Len(array), m \in 1..Len(array) :
         n < m => array[n][1][2] < array[m][1][1]
    /\ \A n \in 1..(Len(array) - 1) :
         ~(array[n][1][2] + 1 = array[n + 1][1][1] /\ array[n][2] = array[n + 1][2])

\* C4: every array produced by updated and array_string from a normalized array is
\* normalized.
C4_Normalized == IsNormalized(arr)

C4_Witness ==
    /\ AfterUpdated /\ domain.has_split /\ I_size(last.i) = 1
    /\ Len(last.a) = 1 /\ Len(arr) = 3 /\ IsNormalized(arr)

\* C5: with max_elems = 15 every array after an update has at most max_elems entries,
\* and the capped result is above the result computed without the cap.
C5_MaxElems ==
    /\ Len(arr) <= max_elems
    /\ AfterUpdated =>
         SA_le(domain,
               updated([domain EXCEPT !.max_elems = Cardinality(Indices(domain))],
                       last.a, last.v, last.i),
               last.r.arr)

C5_Witness ==
    /\ AfterUpdated /\ UncappedLen > max_elems /\ Len(arr) <= max_elems
    /\ domain.max_elems = max_elems

RECURSIVE fold_updated(_, _, _)
\* updated(...updated(updated(acc, e_1, i_1), e_2, i_2)..., e_n, i_n)
fold_updated(D, args, acc) ==
    IF Len(args) < 2 THEN acc
    ELSE fold_updated(D, SubSeq(args, 3, Len(args)), updated(D, acc, args[2], args[1]))

\* C6 as stated: array_string(i_1, e_1, ..., i_n, e_n) is the fold of updated over the
\* pairs from the empty array, for every argument list.
C6_FoldAlways ==
    AfterArrayString => last.r.arr = fold_updated(domain, last.args, SA_empty)

\* some index value of one concrete index meets an index value given before it
StrongOverwrite(args) ==
    \E n \in 1..(Len(args) \div 2), m \in 1..(Len(args) \div 2) :
        /\ m < n
        /\ I_size(args[2 * n - 1]) = 1
        /\ ~I_is_empty(I_meet(args[2 * n - 1], args[2 * m - 1]))

\* C6: array_string(i_1, e_1, ..., i_n, e_n) is the fold of updated over the pairs
\* from the empty array unless, on a domain with split, an index value of size 1
\* meets an earlier index value; with no arguments it is the empty array.
C6_FoldUnlessOverwrite ==
    /\ (AfterArrayString /\ ~(domain.has_split /\ StrongOverwrite(last.args))) =>
          last.r.arr = fold_updated(domain, last.args, SA_empty)
    /\ (AfterArrayString /\ last.args = <<>>) => last.r.arr = SA_empty

C6_Witness ==
    /\ AfterArrayString /\ domain.has_split /\ Len(last.args) = 4
    /\ ~StrongOverwrite(last.args)
    /\ ~I_is_empty(I_meet(last.args[1], last.args[3]))
    /\ last.r.arr = fold_updated(domain, last.args, SA_empty)

----------------------------------------------------------------------------
(* Signatures and dictionary-backed definition providers                   *)
(* (lalcheck/ai/interpretations.py).                                       *)

\* Python's None
PyNone == "None"

\* Signature(name, input_domains, output_domain, out_param_indices, userdata)
Signature(name, input_domains, output_domain, out_param_indices, userdata) ==
    [name |-> name, input_domains |-> input_domains, output_domain |-> output_domain,
     out_param_indices |-> out_param_indices, userdata |-> userdata]

\* hash of a name, a domain, a userdata or None
hash_str(x) ==
    CASE x = PyNone -> 0
      [] x = "eq" -> 1
      [] x = "neq" -> 2
      [] x = "D1" -> 3
      [] x = "D2" -> 4
      [] x = "D3" -> 5
      [] OTHER -> 6

RECURSIVE hash_domains(_)
\* hash of a tuple of domains
hash_domains(doms) ==
    IF doms = <<>> THEN 1
    ELSE (31 * hash_domains(Tail(doms)) + hash_str(Head(doms))) % HashMod

RECURSIVE hash_indices(_)
\* hash of a tuple of parameter indices
hash_indices(idxs) ==
    IF idxs = <<>> THEN 1
    ELSE (31 * hash_indices(Tail(idxs)) + Head(idxs)) % HashMod

\* Signature.__hash__: the hash of the tuple of the five fields
Signature_hash(self) ==
    (hash_str(self.name) + 3 * hash_domains(self.input_domains)
        + 5 * hash_str(self.output_domain) + 7 * hash_indices(self.out_param_indices)
        + 11 * hash_str(self.userdata)) % HashMod

\* __eq__ that does not compare userdata
Signature_eq_without_userdata(self, other) ==
    /\ self.name = other.name
    /\ self.input_domains = other.input_domains
    /\ self.output_domain = other.output_domain
    /\ self.out_param_indices = other.out_param_indices

\* Signature.__eq__
Signature_eq(self, other) ==
    /\ self.name = other.name
    /\ self.input_domains = other.input_domains
    /\ self.output_domain = other.output_domain
    /\ self.out_param_indices = other.out_param_indices
    /\ self.userdata = other.userdata

\* Signature.contains(domain)
contains(self, dom) ==
    (\E n \in 1..Len(self.input_domains) : self.input_domains[n] = dom)
        \/ dom = self.output_domain

\* Signature.substituted(domain, by): the new signature is built without userdata
substituted(self, dom, by) ==
    Signature(self.name,
              [n \in 1..Len(self.input_domains) |->
                    IF self.input_domains[n] = dom THEN by ELSE self.input_domains[n]],
              IF dom = self.output_domain THEN by ELSE self.output_domain,
              self.out_param_indices,
              PyNone)

\* the entries of a dictionary that a lookup of sig finds: same hash, equal key
dict_find(dict, sig) ==
    {e \in dict : Signature_hash(e.key) = Signature_hash(sig) /\ Signature_eq(e.key, sig)}

\* sig in def_dict
dict_contains(dict, sig) == dict_find(dict, sig) # {}

\* def_dict[sig]
dict_get(dict, sig) == (CHOOSE e \in dict_find(dict, sig) : TRUE).value

\* def_dict[sig] = value
dict_set(dict, sig, value) == (dict \ dict_find(dict, sig)) \cup {[key |-> sig, value |-> value]}

\* dict_to_provider(def_dict)(sig): the definition, or None for no match
provider(dict, sig) == IF dict_contains(dict, sig) THEN dict_get(dict, sig) ELSE PyNone

\* the signatures registered and requested
Sigs ==
    {Signature(n, i, o, p, u) :
        n \in {"eq", "neq"}, i \in {<<"D1">>, <<"D1", "D2">>}, o \in {PyNone, "D1"},
        p \in {<<>>, <<0>>}, u \in {PyNone, "u"}}

\* the definitions registered: pairs of a forward and a backward implementation
Defs == {<<"f", "inv_f">>, <<"g", "inv_g">>}

\* no array operation takes part
ArrayIdle == domain = SmallDomain(TRUE) /\ arr = SA_empty /\ steps = 0

NotSigInit == ArrayIdle /\ InterpIdle

InitSig ==
    /\ NotSigInit
    /\ last = NoOp
    /\ def_dict = {}

\* def_dict[sig] = value, while the dictionary given to dict_to_provider is built
Register ==
    /\ last.op = "none"
    /\ \E sig \in Sigs, value \in Defs :
        /\ dict_contains(def_dict, sig) \/ Cardinality(def_dict) < MaxDefs
        /\ def_dict' = dict_set(def_dict, sig, value)
    /\ UNCHANGED <<not_sig_vars, last>>

\* dict_to_provider(def_dict)(sig)
Request ==
    /\ last.op = "none"
    /\ \E sig \in Sigs :
        last' = [op |-> "provider", sig |-> sig, r |-> provider(def_dict, sig)]
    /\ UNCHANGED <<not_sig_vars, def_dict>>

\* x == y and the hashes of x and y, before any definition is registered
Compare ==
    /\ last.op = "none"
    /\ def_dict = {}
    /\ \E x \in Sigs, y \in Sigs :
        last' = [op |-> "eq", x |-> x, y |-> y, rb |-> Signature_eq(x, y),
                 hx |-> Signature_hash(x), hy |-> Signature_hash(y)]
    /\ UNCHANGED <<not_sig_vars, def_dict>>

\* the domains substituted
Doms == {"D1", "D2", "D3"}

\* sig.substituted(dom, by), before any definition is registered
Substituted ==
    /\ last.op = "none"
    /\ def_dict = {}
    /\ \E sig \in Sigs, dom \in Doms, by \in Doms :
        last' = [op |-> "substituted", sig |-> sig, dom |-> dom, by |-> by,
                 r |-> substituted(sig, dom, by)]
    /\ UNCHANGED <<not_sig_vars, def_dict>>

NextSig == Register \/ Request \/ Compare \/ Substituted

SpecSig == InitSig /\ [][NextSig]_vars

----------------------------------------------------------------------------
(* The memoizing default type interpreter (lalcheck/ai/interpretations.py). *)
(* A TypeInterpretation object is its position in objects.                 *)

Boolean == [kind |-> "boolean", of |-> <<>>]

IntRange == [kind |-> "int_range", of |-> <<>>]

Product(tpes) == [kind |-> "product", of |-> tpes]

\* an array type: its index types followed by its component type
Array(index_types, component_type) ==
    [kind |-> "array", of |-> Append(index_types, component_type)]

ModeledType(actual_type, model_type) ==
    [kind |-> "modeled", of |-> <<actual_type, model_type>>]

\* the source types requested
SourceTypes ==
    {Boolean, IntRange,
     Product(<<Boolean, IntRange>>),
     Array(<<IntRange>>, Boolean),
     ModeledType(IntRange, Boolean),
     Product(<<Array(<<IntRange>>, Boolean), IntRange>>),
     ModeledType(Product(<<Boolean, IntRange>>), Boolean)}

RECURSIVE default_type_interpreter(_, _)
RECURSIVE lifted(_, _, _)
\* inner.lifted(): the interpretations of the types tpes, each asked of
\* default_type_interpreter, in order; st is [memo, objects, r], done the list so far
lifted(st, tpes, done) ==
    IF tpes = <<>> THEN [st EXCEPT !.r = done]
    ELSE LET one == default_type_interpreter(st, Head(tpes))
         IN  lifted(one, Tail(tpes), Append(done, one.r))

\* the interpreters combined by default_type_interpreter: a new TypeInterpretation for
\* tpe, built from the interpretations of its inner types
interpreters(st, tpe) ==
    LET inner == lifted(st, tpe.of, <<>>)
        created == Append(inner.objects, [tpe |-> tpe, inner |-> inner.r])
    IN  [memo |-> inner.memo, objects |-> created, r |-> Len(created)]

\* default_type_interpreter without memoizing_type_interpreter
default_type_interpreter_not_memoizing(st, tpe) == interpreters(st, tpe)

\* default_type_interpreter: memoizing_type_interpreter over the combined interpreters
default_type_interpreter(st, tpe) ==
    IF tpe \in DOMAIN st.memo THEN [st EXCEPT !.r = st.memo[tpe]]
    ELSE LET made == interpreters(st, tpe)
         IN  [made EXCEPT !.memo = (tpe :> made.r) @@ made.memo]

NotInterpInit == ArrayIdle /\ SigIdle

InitInterp ==
    /\ NotInterpInit
    /\ last = NoOp
    /\ InterpIdle

\* default_type_interpreter.get(tpe)
Interpret ==
    /\ Len(returned) < MaxRequests
    /\ \E tpe \in SourceTypes :
        LET res == default_type_interpreter([memo |-> memo, objects |-> objects, r |-> 0], tpe)
        IN  /\ memo' = res.memo
            /\ objects' = res.objects
            /\ returned' = Append(returned, <<tpe, res.r>>)
            /\ last' = [op |-> "interpret", tpe |-> tpe, r |-> res.r]
    /\ UNCHANGED not_interp_vars

NextInterp == Interpret

SpecInterp == InitInterp /\ [][NextInterp]_vars

----------------------------------------------------------------------------
(* Operations promoted to a modeled type (default_modeled_interpreter):    *)
(* the array type is the actual type, and dom = Product(array, model) is   *)
(* the domain of the modeled type; a value of dom is <<actual, ghost>>.    *)

\* the domain of the model (ghost) component
model_dom == [lo |-> 0, hi |-> ElemHi]

model_top == I_top(model_dom)

\* the signature requested for get on the modeled type: (dom, index) -> component
call_sig == Signature("call", <<"dom", "index_dom">>, "comp_dom", <<>>, PyNone)

\* implicitly_converted_inputs of transform_implementation, positions counted from 0
implicitly_converted_inputs(sig) ==
    {i \in 0..(Len(sig.input_domains) - 1) : sig.input_domains[i + 1] = "dom"}

implicitly_converted_output(sig) == sig.output_domain = "dom"

\* the signature requested for in_values_of on the modeled type: (component, dom) -> Bool
in_values_of_sig == Signature("in_values_of", <<"comp_dom", "dom">>, "bool_dom", <<>>, PyNone)

\* the call fails: unpacking None, or len(None), raises TypeError
TypeError == [none |-> FALSE, raised |-> TRUE, error |-> "TypeError"]

\* actual_get(array, *indices) and actual_inv_get(res, array_constr, *indices_constr)
actual_get(D, args) == get(D, args[1], args[2])

\* arr, indices = array_inv_get(...) cannot unpack None
actual_inv_get(D, res, constrs) ==
    LET r == inv_get(D, res, constrs[1], constrs[2])
    IN  IF r.none THEN TypeError ELSE <<r.arr, r.idx>>

\* array_inv_in_values_of, which the array provider returns unwrapped
array_inv_in_values_of(D, res, constrs) ==
    LET r == inv_in_values_of(D, res, constrs[1], constrs[2])
    IN  IF r.none THEN None ELSE <<r.val, r.arr>>

\* inv_impl of the pair the actual provider returns for the original signature
inv_impl(D, sig, expected, constrs) ==
    IF sig.name = "call" THEN actual_inv_get(D, expected, constrs)
    ELSE array_inv_in_values_of(D, expected, constrs)

\* new_def_impl(*args) of transform_implementation for sig
new_def_impl(D, sig, args) ==
    LET res == actual_get(D, [i \in 1..Len(args) |->
                    IF (i - 1) \in implicitly_converted_inputs(sig) THEN args[i][1]
                    ELSE args[i]])
    IN  IF implicitly_converted_output(sig) THEN <<res, model_top>> ELSE res

\* new_inv_impl(expected, *constrs) of transform_implementation for sig
new_inv_impl(D, sig, expected, constrs) ==
    LET new_expected == IF implicitly_converted_output(sig) THEN expected[1] ELSE expected
        new_constrs == [i \in 1..Len(constrs) |->
                    IF (i - 1) \in implicitly_converted_inputs(sig) THEN constrs[i][1]
                    ELSE constrs[i]]
        res == inv_impl(D, sig, new_expected, new_constrs)
    IN  IF res = TypeError \/ res = None THEN TypeError
        ELSE [i \in 1..Len(res) |->
                    IF (i - 1) \in implicitly_converted_inputs(sig)
                    THEN <<res[i], model_top>>
                    ELSE res[i]]

\* the forward get promoted to the modeled type
ModeledGet ==
    /\ last.op = "none"
    /\ \E ghost \in I_values(model_dom), index \in QueryIdxs(domain) :
        last' = [op |-> "modeled_get", args |-> <<<<arr, ghost>>, index>>,
                 r |-> new_def_impl(domain, call_sig, <<<<arr, ghost>>, index>>)]
    /\ UNCHANGED <<array_vars, not_array_vars>>

\* the backward inv_get promoted to the modeled type
ModeledInvGet ==
    /\ last.op = "none"
    /\ \E expected \in InvGetVals(domain), ghost \in I_values(model_dom),
          index_constr \in QueryIdxs(domain) :
        last' = [op |-> "modeled_inv_get", expected |-> expected,
                 constrs |-> <<<<arr, ghost>>, index_constr>>,
                 raw |-> inv_get(domain, expected, arr, index_constr).none,
                 inner |-> inv_impl(domain, call_sig, expected, <<arr, index_constr>>),
                 r |-> new_inv_impl(domain, call_sig, expected,
                                    <<<<arr, ghost>>, index_constr>>)]
    /\ UNCHANGED <<array_vars, not_array_vars>>

\* the backward inv_in_values_of promoted to the modeled type
ModeledInvInValuesOf ==
    /\ last.op = "none"
    /\ \E expected \in {none, true, false, both}, ghost \in I_values(model_dom),
          x_constr \in QueryVals(domain) :
        last' = [op |-> "modeled_inv_in_values_of", expected |-> expected,
                 constrs |-> <<x_constr, <<arr, ghost>>>>,
                 raw |-> inv_in_values_of(domain, expected, x_constr, arr).none,
                 inner |-> inv_impl(domain, in_values_of_sig, expected, <<x_constr, arr>>),
                 r |-> new_inv_impl(domain, in_values_of_sig, expected,
                                    <<x_constr, <<arr, ghost>>>>)]
    /\ UNCHANGED <<array_vars, not_array_vars>>

NextModeled == ModeledGet \/ ModeledInvGet \/ ModeledInvInValuesOf

SpecModeled == InitInv /\ [][NextModeled]_vars

----------------------------------------------------------------------------
(* The definition provider of a product type (default_product_interpreter), *)
(* over the inner provider dict_to_provider(def_dict).                      *)

\* _signer(input_domains, output_domain)(name)
signer(input_domains, output_domain, name) ==
    Signature(name, input_domains, output_domain, <<>>, PyNone)

\* the product domains of two components, and the domains of their components
ProdDoms == {"D1xD2", "D2xD1", "D1xD1"}

elem_doms(prod_dom) ==
    CASE prod_dom = "D1xD2" -> <<"D1", "D2">>
      [] prod_dom = "D2xD1" -> <<"D2", "D1">>
      [] prod_dom = "D1xD1" -> <<"D1", "D1">>

bin_rel_sig(prod_dom, op) == signer(<<prod_dom, prod_dom>>, "Bool", op)

elem_bin_rel_sigs(prod_dom, op) ==
    [i \in 1..Len(elem_doms(prod_dom)) |->
        signer(<<elem_doms(prod_dom)[i], elem_doms(prod_dom)[i]>>, "Bool", op)]

\* the names ops.GetName(i) and ops.UpdatedName(i), i counted from 0
GetNames == <<"get_0", "get_1", "get_2">>

UpdatedNames == <<"updated_0", "updated_1", "updated_2">>

getter_sig(prod_dom, i, name) == signer(<<prod_dom>>, elem_doms(prod_dom)[i], name)

updated_sig(prod_dom, i, name) ==
    signer(<<prod_dom, elem_doms(prod_dom)[i]>>, prod_dom, name)

\* what a transformer returns: a value, or None for no match
Match(value) == [match |-> TRUE, value |-> value]

NoMatch == [match |-> FALSE, value |-> PyNone]

\* components_eq_sigs that asks for the equality of the first component only
components_eq_sigs_of_first(prod_dom, op, sig) ==
    IF sig.name = op /\ Signature_eq(sig, bin_rel_sig(prod_dom, op))
    THEN Match(SubSeq(elem_bin_rel_sigs(prod_dom, "eq"), 1, 1))
    ELSE NoMatch

\* case_bin_op(op).components_eq_sigs(sig)
components_eq_sigs(prod_dom, op, sig) ==
    IF sig.name = op /\ Signature_eq(sig, bin_rel_sig(prod_dom, op))
    THEN Match(elem_bin_rel_sigs(prod_dom, "eq"))
    ELSE NoMatch

\* inner_prov.lifted(): the definitions of all the signatures, or no match
prov_lifted(dict, sigs) ==
    IF \E i \in 1..Len(sigs) : ~dict_contains(dict, sigs[i]) THEN NoMatch
    ELSE Match([i \in 1..Len(sigs) |-> provider(dict, sigs[i])])

\* bin_op_provider_builder(op_impl, inv_op_impl).bin_op_provider(comp_eqs)
bin_op_provider(prod_dom, op_impl, inv_op_impl, comp_eqs) ==
    LET eq_defs == [i \in 1..Len(comp_eqs) |-> comp_eqs[i][1]]
        eq_inv_defs == [i \in 1..Len(comp_eqs) |-> comp_eqs[i][2]]
    IN  Match(<<[impl |-> op_impl, eq_defs |-> eq_defs],
                [impl |-> inv_op_impl, dom |-> prod_dom, eq_inv_defs |-> eq_inv_defs,
                 eq_defs |-> eq_defs]>>)

\* case_bin_op(op) >> prov_lifted >> bin_op_provider
bin_op_case(dict, prod_dom, op, op_impl, inv_op_impl, sig) ==
    LET sigs == components_eq_sigs(prod_dom, op, sig)
        comp_eqs == IF sigs.match THEN prov_lifted(dict, sigs.value) ELSE NoMatch
    IN  IF comp_eqs.match
        THEN bin_op_provider(prod_dom, op_impl, inv_op_impl, comp_eqs.value)
        ELSE NoMatch

\* case_get_update(sig)
case_get_update(prod_dom, sig) ==
    IF \E i \in 1..Len(elem_doms(prod_dom)) :
            sig.name = GetNames[i] /\ Signature_eq(sig, getter_sig(prod_dom, i, sig.name))
    THEN Match(<<[impl |-> "product_ops.getter", name |-> sig.name],
                 [impl |-> "product_ops.inv_getter", dom |-> prod_dom,
                  name |-> sig.name]>>)
    ELSE IF \E i \in 1..Len(elem_doms(prod_dom)) :
            sig.name = UpdatedNames[i]
                /\ Signature_eq(sig, updated_sig(prod_dom, i, sig.name))
    THEN Match(<<[impl |-> "product_ops.updater", name |-> sig.name],
                 [impl |-> "product_ops.inv_updater", dom |-> prod_dom,
                  name |-> sig.name]>>)
    ELSE NoMatch

\* provider_builder(inner_prov)(sig), inner_prov being dict_to_provider(dict)
provider_builder(dict, prod_dom, sig) ==
    LET eq_case == bin_op_case(dict, prod_dom, "eq", "product_ops.eq",
                               "product_ops.inv_eq", sig)
        neq_case == bin_op_case(dict, prod_dom, "neq", "product_ops.neq",
                                "product_ops.inv_neq", sig)
    IN  IF eq_case.match THEN eq_case
        ELSE IF neq_case.match THEN neq_case
        ELSE case_get_update(prod_dom, sig)

\* the signatures registered with the inner provider
ComponentSigs ==
    {Signature(n, <<d, d>>, "Bool", p, PyNone) :
        n \in {"eq", "neq"}, d \in {"D1", "D2"}, p \in {<<>>, <<0>>}}

\* the signatures requested of the provider of the product prod_dom
ProductSigs(prod_dom) ==
    {Signature(n, i, o, <<>>, u) :
        n \in {"eq", "neq", "get_0", "get_1", "updated_1"},
        i \in {<<prod_dom, prod_dom>>, <<prod_dom>>, <<prod_dom, "D1">>},
        o \in {"Bool", "D1", prod_dom},
        u \in {PyNone, "u"}}

\* def_dict[sig] = value for the equality of a component, while the inner provider is
\* built
RegisterComponent ==
    /\ last.op = "none"
    /\ \E sig \in ComponentSigs, value \in Defs :
        /\ dict_contains(def_dict, sig) \/ Cardinality(def_dict) < MaxDefs
        /\ def_dict' = dict_set(def_dict, sig, value)
    /\ UNCHANGED <<not_sig_vars, last>>

\* provider_builder(inner_prov)(sig) for the product prod_dom
ProductRequest ==
    /\ last.op = "none"
    /\ \E prod_dom \in ProdDoms :
        \E sig \in ProductSigs(prod_dom) :
            last' = [op |-> "product_provider", dom |-> prod_dom, sig |-> sig,
                     r |-> provider_builder(def_dict, prod_dom, sig)]
    /\ UNCHANGED <<not_sig_vars, def_dict>>

NextProduct == RegisterComponent \/ ProductRequest

SpecProduct == InitSig /\ [][NextProduct]_vars

----------------------------------------------------------------------------
(* Lowering of a subprogram body to the Basic IR (gen_ir of                *)
(* lalcheck/ai/irs/basic/frontends/lal/codegen.py).                         *)
(* A source node is [k, label, cond, body]: k is the libadalang node kind,  *)
(* cond says whether the node has an expression and whether transforming it *)
(* raises one of the recoverable errors. A node is named by its path: 0 or  *)
(* 1 (f_decls or f_stmts) followed by its position in each statement list.  *)
(* An IR statement is [k, label, stmts, alt, orig]; a LabelStmt object is   *)
(* identified by its name.                                                  *)

MaxStmts == 2
MaxDepth == 2

LabelNames == {"L1"}

NoNode == <<>>

Node(k, label, cond, body) == [k |-> k, label |-> label, cond |-> cond, body |-> body]

\* the sequences of at most n members of S
RECURSIVE SeqsUpTo(_, _)
SeqsUpTo(S, n) ==
    IF n = 0 THEN {<<>>}
    ELSE LET shorter == SeqsUpTo(S, n - 1)
         IN  shorter \cup {Append(s, x) : s \in {t \in shorter : Len(t) = n - 1}, x \in S}

SimpleStmts ==
    {Node("AssignStmt", "", c, <<>>) : c \in {"ok", "raises"}}
    \cup {Node("Label", l, "none", <<>>) : l \in LabelNames}
    \cup {Node("GotoStmt", l, "none", <<>>) : l \in LabelNames}
    \cup {Node("ReturnStmt", "", c, <<>>) : c \in {"none", "ok"}}
    \cup {Node("ExitStmt", "", c, <<>>) : c \in {"none", "ok"}}

\* the statements nested at most d deep
RECURSIVE SourceStmts(_)
SourceStmts(d) ==
    IF d <= 1 THEN SimpleStmts
    ELSE LET bodies == SeqsUpTo(SourceStmts(d - 1), MaxStmts)
         IN  SimpleStmts
             \cup {Node("LoopStmt", "", "none", b) : b \in bodies}
             \cup {Node("WhileLoopStmt", "", c, b) : c \in {"ok", "raises"}, b \in bodies}
             \cup {Node("ForLoopStmt", "", "ok", b) : b \in bodies}
             \cup {Node("IfStmt", "", c, b) : c \in {"ok", "raises"}, b \in bodies}

SourceDecls ==
    {<<>>}
    \cup {<<Node("ObjectDecl", "", c, <<>>)>> : c \in {"none", "ok", "raises"}}

IsLoop(stmt) == stmt.k \in {"LoopStmt", "WhileLoopStmt", "ForLoopStmt"}

\* the number of Label statements named l in the statement list
RECURSIVE LabelCount(_, _)
LabelCount(stmts, l) ==
    IF stmts = <<>> THEN 0
    ELSE LET stmt == Head(stmts)
         IN  (IF stmt.k = "Label" /\ stmt.label = l THEN 1 ELSE 0)
             + LabelCount(stmt.body, l) + LabelCount(Tail(stmts), l)

\* Ada legality rules the lowering relies on: a goto names a label of its own or of an
\* enclosing statement list, and an exit stands in a loop
RECURSIVE LegalStmts(_, _, _)
LegalStmts(stmts, visible, in_loop) ==
    LET here == visible \cup {stmts[n].label : n \in {m \in DOMAIN stmts : stmts[m].k = "Label"}}
    IN  \A n \in DOMAIN stmts :
            LET stmt == stmts[n]
            IN  /\ stmt.k = "GotoStmt" => stmt.label \in here
                /\ stmt.k = "ExitStmt" => in_loop
                /\ LegalStmts(stmt.body, here, in_loop \/ IsLoop(stmt))

LegalSubp(subp) ==
    /\ \A l \in LabelNames : LabelCount(subp.stmts, l) <= 1
    /\ LegalStmts(subp.stmts, {}, FALSE)

Subps ==
    {subp \in [decls : SourceDecls, stmts : SeqsUpTo(SourceStmts(MaxDepth), MaxStmts)] :
        LegalSubp(subp)}

IRStmt(k, label, stmts, alt, orig) ==
    [k |-> k, label |-> label, stmts |-> stmts, alt |-> alt, orig |-> orig]

LabelStmt(name) == IRStmt("LabelStmt", name, <<>>, <<>>, NoNode)
GotoStmt(label, orig) == IRStmt("GotoStmt", label.label, <<>>, <<>>, orig)
AssignStmt(orig) == IRStmt("AssignStmt", "", <<>>, <<>>, orig)
ReadStmt(orig) == IRStmt("ReadStmt", "", <<>>, <<>>, orig)
AssumeStmt(orig) == IRStmt("AssumeStmt", "", <<>>, <<>>, orig)
\* AssumeStmt(not_cond): the label field holds the operator of the assumed expression
AssumeNotStmt(orig) == IRStmt("AssumeStmt", "!", <<>>, <<>>, orig)
LoopStmt(stmts, orig) == IRStmt("LoopStmt", "", stmts, <<>>, orig)
SplitStmt(then_stmts, else_stmts, orig) == IRStmt("SplitStmt", "", then_stmts, else_stmts, orig)

\* labels[label_decl]
labels(name) == LabelStmt(name)

func_end_label == LabelStmt("end")

\* the counters of tmp_vars that fresh_name reads
NoTmpVars ==
    [exit_loop |-> 0, exit_while_loop |-> 0, tmp |-> 0, unimpl |-> 0, unknown |-> 0, ret |-> 0,
     result |-> 0]

fresh_name(name, tmp_vars) == name \o ToString(tmp_vars[name])

get_incr(name, tmp_vars) == [tmp_vars EXCEPT ![name] = @ + 1]

\* what a transformation leaves behind: the statements it returns unless it raised, the
\* counters of tmp_vars and the nodes print_warning was called for
Lowered(stmts, tmp_vars, warnings) ==
    [raised |-> FALSE, stmts |-> stmts, tmp_vars |-> tmp_vars, warnings |-> warnings]

Raised(tmp_vars, warnings) ==
    [raised |-> TRUE, stmts |-> <<>>, tmp_vars |-> tmp_vars, warnings |-> warnings]

\* the pre-statements transform_expr returns for a condition: the assignment of a return
\* variable when the condition is a call with contracts, none otherwise
cond_pre_stmts(cond) == IF cond = "call" THEN <<AssignStmt(NoNode)>> ELSE <<>>

\* gen_split_stmt, after then_stmts and else_stmts are transformed
gen_split_stmt(cond, then_stmts, else_stmts, orig, done) ==
    IF cond = "raises" THEN Raised(done.tmp_vars, done.warnings)
    ELSE Lowered(cond_pre_stmts(cond)
                    \o <<SplitStmt(<<AssumeStmt(NoNode)>> \o then_stmts,
                                   <<AssumeNotStmt(NoNode)>> \o else_stmts, orig)>>,
                 done.tmp_vars, done.warnings)

\* the entry of loop_stack for a loop statement: the statement, known by its node and by
\* the name its NamedStmt gives it, and its exit label
loop_entry(stmt, node, exit_label) == <<[node |-> node, name |-> stmt.label], exit_label>>

\* exited_loop with the loop name of the exit statement left aside
innermost_loop(stmt, loop_stack) == loop_stack[Len(loop_stack)]

\* exited_loop of the ExitStmt branch: the top of loop_stack, or the first entry whose
\* statement is the loop the name refers to
exited_loop(stmt, loop_stack) ==
    IF stmt.label = "" THEN loop_stack[Len(loop_stack)]
    ELSE LET named == {n \in DOMAIN loop_stack : loop_stack[n][1].name = stmt.label}
         IN  loop_stack[CHOOSE n \in named : \A m \in named : n <= m]

\* the LoopStmt branch with the exit label left out
lower_loop_without_exit_label(loop_stmts, exit_label, orig) == <<LoopStmt(loop_stmts, orig)>>

\* what the LoopStmt branch of transform_stmt returns
lower_loop(loop_stmts, exit_label, orig) == <<LoopStmt(loop_stmts, orig), exit_label>>

\* what transform_stmts adds to res for a statement whose transformation raised
on_error(path) == <<>>

RECURSIVE transform_stmt(_, _, _, _, _)
RECURSIVE transform_stmts_from(_, _, _, _, _)

\* transform_stmts: res.extend(transform_stmt(stmt)) for the statements from position n
\* on; acc is res with the counters and warnings so far
transform_stmts_from(stmts, n, path, loop_stack, acc) ==
    IF n > Len(stmts) THEN acc
    ELSE LET node == Append(path, n)
             t == transform_stmt(stmts[n], node, loop_stack, acc.tmp_vars, acc.warnings)
         IN  transform_stmts_from(stmts, n + 1, path, loop_stack,
                 IF t.raised
                 THEN Lowered(acc.stmts \o on_error(node), t.tmp_vars, Append(t.warnings, node))
                 ELSE Lowered(acc.stmts \o t.stmts, t.tmp_vars, t.warnings))

transform_stmts(stmts, path, loop_stack, tmp_vars, warnings) ==
    transform_stmts_from(stmts, 1, path, loop_stack, Lowered(<<>>, tmp_vars, warnings))

transform_stmt(stmt, node, loop_stack, tmp_vars, warnings) ==
    CASE stmt.k = "AssignStmt" ->
            IF stmt.cond = "raises" THEN Raised(tmp_vars, warnings)
            ELSE Lowered(<<AssignStmt(node)>>, tmp_vars, warnings)
      [] stmt.k = "IfStmt" ->
            LET then_part == transform_stmts(stmt.body, node, loop_stack, tmp_vars, warnings)
            IN  gen_split_stmt(stmt.cond, then_part.stmts, <<>>, node, then_part)
      [] stmt.k = "LoopStmt" ->
            LET exit_label == LabelStmt(fresh_name("exit_loop", tmp_vars))
                loop_stmts == transform_stmts(stmt.body, node,
                                  Append(loop_stack, loop_entry(stmt, node, exit_label)),
                                  get_incr("exit_loop", tmp_vars), warnings)
            IN  Lowered(lower_loop(loop_stmts.stmts, exit_label, node),
                        loop_stmts.tmp_vars, loop_stmts.warnings)
      [] stmt.k = "WhileLoopStmt" ->
            IF stmt.cond = "raises" THEN Raised(tmp_vars, warnings)
            ELSE LET exit_label == LabelStmt(fresh_name("exit_while_loop", tmp_vars))
                     loop_stmts == transform_stmts(stmt.body, node,
                                       Append(loop_stack, loop_entry(stmt, node, exit_label)),
                                       get_incr("exit_while_loop", tmp_vars), warnings)
                 IN  Lowered(<<LoopStmt(cond_pre_stmts(stmt.cond) \o <<AssumeStmt(NoNode)>>
                                            \o loop_stmts.stmts, node),
                               AssumeNotStmt(NoNode), exit_label>>,
                             loop_stmts.tmp_vars, loop_stmts.warnings)
      [] stmt.k = "ForLoopStmt" -> Lowered(<<>>, tmp_vars, warnings)
      [] stmt.k = "Label" -> Lowered(<<labels(stmt.label)>>, tmp_vars, warnings)
      [] stmt.k = "GotoStmt" -> Lowered(<<GotoStmt(labels(stmt.label), node)>>, tmp_vars, warnings)
      [] stmt.k = "ExitStmt" ->
            LET loop_exit_label == exited_loop(stmt, loop_stack)[2]
                exit_goto == GotoStmt(loop_exit_label, NoNode)
            IN  IF stmt.cond = "none" THEN Lowered(<<exit_goto>>, tmp_vars, warnings)
                ELSE gen_split_stmt(stmt.cond, <<exit_goto>>, <<>>, node,
                                    Lowered(<<>>, tmp_vars, warnings))
      [] stmt.k = "ReturnStmt" ->
            Lowered((IF stmt.cond = "none" THEN <<>> ELSE <<AssignStmt(node)>>)
                        \o <<GotoStmt(func_end_label, node)>>,
                    tmp_vars, warnings)
      [] OTHER -> Raised(tmp_vars, warnings)

\* the ObjectDecl branch of transform_decl
transform_decl(decl, node, tmp_vars, warnings) ==
    CASE decl.cond = "raises" -> Raised(tmp_vars, warnings)
      [] decl.cond = "none" -> Lowered(<<ReadStmt(node)>>, tmp_vars, warnings)
      [] OTHER -> Lowered(<<AssignStmt(node)>>, tmp_vars, warnings)

RECURSIVE transform_decls_from(_, _, _, _)
transform_decls_from(decls, n, path, acc) ==
    IF n > Len(decls) THEN acc
    ELSE LET node == Append(path, n)
             t == transform_decl(decls[n], node, acc.tmp_vars, acc.warnings)
         IN  transform_decls_from(decls, n + 1, path,
                 IF t.raised
                 THEN Lowered(acc.stmts \o on_error(node), t.tmp_vars, Append(t.warnings, node))
                 ELSE Lowered(acc.stmts \o t.stmts, t.tmp_vars, t.warnings))

transform_decls(decls, path, tmp_vars, warnings) ==
    transform_decls_from(decls, 1, path, Lowered(<<>>, tmp_vars, warnings))

\* the Program gen_ir returns for a parameterless procedure, and the warnings printed
gen_ir(subp) ==
    LET decls == transform_decls(subp.decls, <<0>>, NoTmpVars, <<>>)
        stmts == transform_stmts(subp.stmts, <<1>>, <<>>, decls.tmp_vars, decls.warnings)
    IN  [stmts |-> decls.stmts \o stmts.stmts \o <<func_end_label>>,
         warnings |-> stmts.warnings]

\* every statement of the tree of an IR statement list
RECURSIVE TreeStmts(_)
TreeStmts(stmts) ==
    IF stmts = <<>> THEN {}
    ELSE {Head(stmts)} \cup TreeStmts(Head(stmts).stmts) \cup TreeStmts(Head(stmts).alt)
         \cup TreeStmts(Tail(stmts))

NotIRInit == ArrayIdle /\ SigIdle /\ InterpIdle

InitIR ==
    /\ NotIRInit
    /\ last = NoOp

\* gen_ir(ctx, subp, typer)
GenIr ==
    /\ last.op = "none"
    /\ \E subp \in Subps :
        LET res == gen_ir(subp)
        IN  last' = [op |-> "gen_ir", subp |-> subp, program |-> res.stmts,
                     warnings |-> res.warnings]
    /\ UNCHANGED <<array_vars, def_dict, interp_vars>>

NextIR == GenIr

SpecIR == InitIR /\ [][NextIR]_vars

\* bodies of nested loops: a loop statement carries in label the name its NamedStmt gives
\* it, an exit statement the loop name it mentions; a while condition is a comparison
\* ("ok") or a call with contracts ("call")
LoopNames(name) == {name} \ {""}

ExitStmts(names) == {Node("ExitStmt", l, c, <<>>) : l \in {""} \cup names, c \in {"none", "ok"}}

LoopHeads == {<<"LoopStmt", "none">>, <<"WhileLoopStmt", "ok">>, <<"WhileLoopStmt", "call">>}

LoopBodies(names, inner) ==
    {<<exit>> : exit \in ExitStmts(names)}
        \cup {<<first, exit>> : first \in inner, exit \in ExitStmts(names)}
        \cup {<<first>> : first \in inner \ {Node("AssignStmt", "", "ok", <<>>)}}

LoopsOver(loop_names, names, inner) ==
    UNION {{Node(head[1], name, head[2], body) :
                head \in LoopHeads, body \in LoopBodies(names \cup LoopNames(name), inner)} :
           name \in loop_names}

InnerLoops(names) == LoopsOver({"", "Inner"}, names, {Node("AssignStmt", "", "ok", <<>>)})

OuterLoops ==
    UNION {LoopsOver({name}, {}, InnerLoops(LoopNames(name))) : name \in {"", "Outer"}}

LoopSubps == {[decls |-> <<>>, stmts |-> <<outer>>] : outer \in OuterLoops}

\* gen_ir(ctx, subp, typer) on a body of nested loops
GenIrLoops ==
    /\ last.op = "none"
    /\ \E subp \in LoopSubps :
        LET res == gen_ir(subp)
        IN  last' = [op |-> "gen_ir", subp |-> subp, program |-> res.stmts,
                     warnings |-> res.warnings]
    /\ UNCHANGED <<array_vars, def_dict, interp_vars>>

NextLoops == GenIrLoops

SpecLoops == InitIR /\ [][NextLoops]_vars

----------------------------------------------------------------------------
(* ConvertUniversalTypes (codegen.py): the visitor that rewrites universal  *)
(* type hints. An expression is [k, type_hint, var, const, args,            *)
(* has_param_types, param_types]; const says whether evaluator.eval         *)
(* evaluates it. A Variable is a name, its data.type_hint is kept in a      *)
(* store shared by every Identifier of the variable.                        *)

MaxArgs == 2

universal_int == "universal_int"

\* evaluator.int
Integer == "Integer"

TypeHints == {universal_int, Integer, "Natural"}

Variables == {"x", "y"}

Expr(k, type_hint, var, const, args, has_param_types, param_types) ==
    [k |-> k, type_hint |-> type_hint, var |-> var, const |-> const, args |-> args,
     has_param_types |-> has_param_types, param_types |-> param_types]

Lit(type_hint) == Expr("Lit", type_hint, "", TRUE, <<>>, FALSE, <<>>)

Identifier(var, type_hint) == Expr("Identifier", type_hint, var, FALSE, <<>>, FALSE, <<>>)

FunCall(args, type_hint, const, has_param_types, param_types) ==
    Expr("FunCall", type_hint, "", const, args, has_param_types, param_types)

LeafExprs ==
    {Lit(t) : t \in TypeHints} \cup {Identifier(v, t) : v \in Variables, t \in TypeHints}

FunCalls ==
    {FunCall(args, t, const, FALSE, <<>>) :
        args \in SeqsUpTo(LeafExprs, MaxArgs), t \in TypeHints, const \in BOOLEAN}
    \cup {FunCall(args, t, const, TRUE, [n \in DOMAIN args |-> p]) :
        args \in SeqsUpTo(LeafExprs, MaxArgs), t \in TypeHints, const \in BOOLEAN,
        p \in TypeHints \ {universal_int}}

Exprs == LeafExprs \cup FunCalls

has_universal_type(type_hint) == type_hint = universal_int

\* is_integer_type: typer.get(tpe).is_a(types.IntRange); what the typer answers for the
\* universal integer type itself is given by universal_is_int
is_integer_type(tpe, universal_is_int) ==
    IF tpe = universal_int THEN universal_is_int ELSE tpe \in {Integer, "Natural"}

is_compatible(tpe, universal_tpe, universal_is_int) == is_integer_type(tpe, universal_is_int)

compatible_type(universal_tpe) == Integer

\* visit_ident with its expected_type argument, on the store of the variables' type hints
visit_ident(ident, expected_type, store) ==
    IF has_universal_type(store[ident.var])
    THEN [store EXCEPT ![ident.var] = expected_type]
    ELSE store

\* the Identifier after visit_ident: its own data is left as it is
visited_ident(ident, expected_type) == ident

\* the type visit_funcall converts an argument to when the call has no param_types
arg_type(arg, not_universals, expected_type, universal_is_int) ==
    IF ~has_universal_type(arg.type_hint) THEN arg.type_hint
    ELSE IF Len(not_universals) > 0
            /\ is_compatible(not_universals[1], arg.type_hint, universal_is_int)
         THEN not_universals[1]
    ELSE IF is_compatible(expected_type, arg.type_hint, universal_is_int) THEN expected_type
    ELSE compatible_type(arg.type_hint)

RECURSIVE try_convert_expr(_, _, _, _)
RECURSIVE convert_args(_, _, _, _, _)

\* funcall.args[n] = try_convert_expr(arg, types[n]) for the arguments from n on
convert_args(args, types, n, store, universal_is_int) ==
    IF n > Len(args) THEN [args |-> args, store |-> store]
    ELSE LET done == try_convert_expr(args[n], types[n], store, universal_is_int)
         IN  convert_args([args EXCEPT ![n] = done.expr], types, n + 1, done.store,
                          universal_is_int)

visit_funcall(funcall, expected_type, store, universal_is_int) ==
    LET args == funcall.args
        not_universals ==
            LET kept == SelectSeq(args, LAMBDA arg : ~has_universal_type(arg.type_hint))
            IN  [n \in DOMAIN kept |-> kept[n].type_hint]
        types ==
            IF \E n \in DOMAIN args : has_universal_type(args[n].type_hint)
            THEN IF funcall.has_param_types THEN funcall.param_types
                 ELSE [n \in DOMAIN args |->
                          arg_type(args[n], not_universals, expected_type, universal_is_int)]
            ELSE [n \in DOMAIN args |-> args[n].type_hint]
        done == convert_args(args, types, 1, store, universal_is_int)
    IN  [expr |-> [funcall EXCEPT !.args = done.args], store |-> done.store]

try_convert_expr(expr, expected_type, store, universal_is_int) ==
    IF expr.const THEN [expr |-> Lit(expected_type), store |-> store]
    ELSE LET typed == IF has_universal_type(expr.type_hint)
                      THEN [expr EXCEPT !.type_hint = expected_type]
                      ELSE expr
         IN  IF typed.k = "Identifier"
             THEN [expr |-> visited_ident(typed, typed.type_hint),
                   store |-> visit_ident(typed, typed.type_hint, store)]
             ELSE visit_funcall(typed, typed.type_hint, store, universal_is_int)

\* visit_assign on the statement assign.id := assign.expr
visit_assign(assign, store, universal_is_int) ==
    LET to_int == has_universal_type(assign.id.type_hint)
        id == IF to_int THEN visited_ident(assign.id, compatible_type(assign.id.type_hint))
              ELSE assign.id
        store1 == IF to_int
                  THEN visit_ident(assign.id, compatible_type(assign.id.type_hint), store)
                  ELSE store
        done == try_convert_expr(assign.expr, id.type_hint, store1, universal_is_int)
    IN  [assign |-> [id |-> id, expr |-> done.expr], store |-> done.store]

InitConvert == InitIR

\* ConvertUniversalTypes(evaluator, typer).visit_assign(assign)
VisitAssign ==
    /\ last.op = "none"
    /\ \E var \in Variables, id_hint \in TypeHints, expr \in Exprs,
          store \in [Variables -> TypeHints], universal_is_int \in BOOLEAN :
        LET assign == [id |-> Identifier(var, id_hint), expr |-> expr]
            res == visit_assign(assign, store, universal_is_int)
        IN  last' = [op |-> "visit_assign", assign |-> assign, store |-> store,
                     r |-> res.assign, r_store |-> res.store]
    /\ UNCHANGED <<array_vars, def_dict, interp_vars>>

NextConvert == VisitAssign

SpecConvert == InitConvert /\ [][NextConvert]_vars

----------------------------------------------------------------------------
(* Lowering of expressions, assignments, object declarations and calls      *)
(* (gen_ir of codegen.py). A libadalang expression is                       *)
(* [k, op, n, ref, tpe, args]: ref names the declaration p_xref or          *)
(* p_referenced_decl answers, tpe is p_expression_type, args holds the      *)
(* operands (f_name or f_prefix first). An IR expression is                 *)
(* [k, op, n, var, type_hint, args, has_param_types, param_types]: the      *)
(* operator Get_n is op "Get" with n, a Lit keeps its value in n. An IR     *)
(* statement is [k, id, expr, purpose, branches]. The variables of gen_ir   *)
(* that its closures update (tmp_vars, var_idx, substitutions, var_decls)   *)
(* and to_spill are the fields of cg.                                       *)

MaxText == 2
MaxRets == 3

StackType == "Stack"

BooleanType == "Boolean"

SyntheticVariable == "SyntheticVariable"

lal_Expr(k, op, n, ref, tpe, args) ==
    [k |-> k, op |-> op, n |-> n, ref |-> ref, tpe |-> tpe, args |-> args]

lal_IntLiteral(n) == lal_Expr("IntLiteral", "", n, "", universal_int, <<>>)
lal_StringLiteral(n) == lal_Expr("StringLiteral", "", n, "", "Str", <<>>)
lal_Identifier(ref, tpe) == lal_Expr("Identifier", "", 0, ref, tpe, <<>>)
lal_DefiningName(ref, tpe) == lal_Expr("DefiningName", "", 0, ref, tpe, <<>>)
lal_BinOp(op, left, right, tpe) == lal_Expr("BinOp", op, 0, "", tpe, <<left, right>>)
lal_UnOp(op, expr, tpe) == lal_Expr("UnOp", op, 0, "", tpe, <<expr>>)
lal_CallExpr(name, suffix, tpe) == lal_Expr("CallExpr", "", 0, "", tpe, <<name>> \o suffix)
lal_DottedName(prefix, n, ref, tpe) == lal_Expr("DottedName", "", n, ref, tpe, <<prefix>>)
lal_ExplicitDeref(prefix, tpe) == lal_Expr("ExplicitDeref", "", 0, "", tpe, <<prefix>>)
lal_AttributeRef(prefix, attribute, tpe) ==
    lal_Expr("AttributeRef", attribute, 0, prefix.ref, tpe, <<prefix>>)

irt_Variable(name, purpose, type_hint, index) ==
    [name |-> name, purpose |-> purpose, type_hint |-> type_hint, index |-> index]

NoVariable == irt_Variable("", "", "", 0)

irt_Expr(k, op, n, var, type_hint, args, has_param_types, param_types) ==
    [k |-> k, op |-> op, n |-> n, var |-> var, type_hint |-> type_hint, args |-> args,
     has_param_types |-> has_param_types, param_types |-> param_types]

irt_Lit(value, type_hint) == irt_Expr("Lit", "", value, NoVariable, type_hint, <<>>, FALSE, <<>>)

irt_Identifier(var, type_hint) ==
    irt_Expr("Identifier", "", 0, var, type_hint, <<>>, FALSE, <<>>)

irt_FunCall(op, n, args, type_hint, has_param_types, param_types) ==
    irt_Expr("FunCall", op, n, NoVariable, type_hint, args, has_param_types, param_types)

\* the expression None
NoExpr == irt_Expr("None", "", 0, NoVariable, "", <<>>, FALSE, <<>>)

irt_Stmt(k, id, expr, purpose, branches) ==
    [k |-> k, id |-> id, expr |-> expr, purpose |-> purpose, branches |-> branches]

irt_AssignStmt(id, expr) == irt_Stmt("AssignStmt", id, expr, "", <<>>)
irt_ReadStmt(id) == irt_Stmt("ReadStmt", id, NoExpr, "", <<>>)
irt_AssumeStmt(expr, purpose) == irt_Stmt("AssumeStmt", NoExpr, expr, purpose, <<>>)
irt_SplitStmt(branches) == irt_Stmt("SplitStmt", NoExpr, NoExpr, "", branches)

\* the types of the lowered unit: the array types with their index and component types,
\* and the record type with the type of its fields
ArrayTypes ==
    [Arr |-> [indices |-> <<"Index">>, component |-> Integer],
     Str |-> [indices |-> <<"Positive">>, component |-> "Character"]]

is_array_type_decl(tpe) == tpe \in DOMAIN ArrayTypes

\* get_field_info(field): the fields of the record type Rec are Integers
field_info(n) == [index |-> n, record_decl |-> "Rec", field_type |-> Integer]

Param(name, tpe, mode) == [name |-> name, tpe |-> tpe, mode |-> mode]

SubpDecl(params, returns, global_access, dottable, pres, posts) ==
    [params |-> params, returns |-> returns, global_access |-> global_access,
     dottable |-> dottable, pres |-> pres, posts |-> posts]

\* the subprograms of the lowered unit; G is the subprogram whose body is lowered
\*   function F (i : Integer) return Integer
\*   procedure P (i : Integer; o : out Integer)
\*   function G (x : Integer; y : in out Integer) return Integer
\*     with Pre => x > 0, Post => y > y'Old and G'Result > x
\*   function C (i : Integer) return Integer with Pre => i > 0
\*   procedure W (i : Integer), which writes the global state
\*   function R return Integer, which reads the global state
\*   function D (r : Rec; i : Integer) return Integer, called as r.D (i)
\*   function A return Arr
\*   procedure Q (m : Str; o : out Integer; u : in out Integer)
\*     with Pre => m = m, Post => o > u'Old
Subprograms ==
    [F |-> SubpDecl(<<Param("F.i", Integer, "in")>>, Integer, "ignores", FALSE, <<>>, <<>>),
     P |-> SubpDecl(<<Param("P.i", Integer, "in"), Param("P.o", Integer, "out")>>, "",
                    "ignores", FALSE, <<>>, <<>>),
     G |-> SubpDecl(<<Param("G.x", Integer, "in"), Param("G.y", Integer, "in out")>>, Integer,
                    "ignores", FALSE,
                    <<lal_BinOp(">", lal_Identifier("G.x", Integer), lal_IntLiteral(0), BooleanType)>>,
                    <<lal_BinOp(">", lal_Identifier("G.y", Integer),
                                lal_AttributeRef(lal_Identifier("G.y", Integer), "old", Integer),
                                BooleanType),
                      lal_BinOp(">", lal_AttributeRef(lal_Identifier("G", Integer), "result",
                                                      Integer),
                                lal_Identifier("G.x", Integer), BooleanType)>>),
     C |-> SubpDecl(<<Param("C.i", Integer, "in")>>, Integer, "ignores", FALSE,
                    <<lal_BinOp(">", lal_Identifier("C.i", Integer), lal_IntLiteral(0), BooleanType)>>,
                    <<>>),
     W |-> SubpDecl(<<Param("W.i", Integer, "in")>>, "", "writes", FALSE, <<>>, <<>>),
     R |-> SubpDecl(<<>>, Integer, "reads", FALSE, <<>>, <<>>),
     D |-> SubpDecl(<<Param("D.r", "Rec", "in"), Param("D.i", Integer, "in")>>, Integer,
                    "ignores", TRUE, <<>>, <<>>),
     A |-> SubpDecl(<<>>, "Arr", "ignores", FALSE, <<>>, <<>>),
     Q |-> SubpDecl(<<Param("Q.m", "Str", "in"), Param("Q.o", Integer, "out"),
                      Param("Q.u", Integer, "in out")>>, "", "ignores", FALSE,
                    <<lal_BinOp("=", lal_Identifier("Q.m", "Str"), lal_Identifier("Q.m", "Str"),
                                BooleanType)>>,
                    <<lal_BinOp(">", lal_Identifier("Q.o", Integer),
                                lal_AttributeRef(lal_Identifier("Q.u", Integer), "old", Integer),
                                BooleanType)>>)]

\* _subprogram_param_types(subp, with_stack)
subprogram_param_types(subp, with_stack) ==
    [n \in DOMAIN subp.params |-> subp.params[n].tpe]
    \o (IF with_stack THEN <<StackType>> ELSE <<>>)

\* _array_access_param_types(array_type_decl)
array_access_param_types(array_type_decl) ==
    <<array_type_decl>> \o ArrayTypes[array_type_decl].indices

\* _array_assign_param_types(array_type_decl)
array_assign_param_types(array_type_decl) ==
    <<array_type_decl, ArrayTypes[array_type_decl].component>>
    \o ArrayTypes[array_type_decl].indices

\* _field_access_param_types(field_info)
field_access_param_types(info) == <<info.record_decl>>

\* _field_assign_param_types(field_info)
field_assign_param_types(info) == <<info.record_decl, info.field_type>>

\* _stack_assign_param_types(var)
stack_assign_param_types(var) == <<StackType, var.type_hint>>

\* _deref_assign_param_types(ptr_type, val_type)
deref_assign_param_types(ptr_type, val_type) == <<StackType, ptr_type, val_type>>

\* (index_type, component_type) * n
RECURSIVE Repeated(_, _)
Repeated(pair, n) == IF n = 0 THEN <<>> ELSE pair \o Repeated(pair, n - 1)

\* _string_literal_param_types(array_type_decl, text), for a text of n characters
string_literal_param_types(array_type_decl, n) ==
    LET assignment_param_types == array_assign_param_types(array_type_decl)
        component_type == assignment_param_types[2]
        index_type == assignment_param_types[3]
    IN  <<array_type_decl>> \o Repeated(<<index_type, component_type>>, n)

\* the Identifier of the variable "$stack", the first to take an index
stack == irt_Identifier(irt_Variable("$stack", "", StackType, 0), StackType)

\* what a transformation returns, with the closure variables after it
Tr(stmts, expr, cg) == [stmts |-> stmts, expr |-> expr, cg |-> cg]

new_expression_replacing_var(name, replaced_expr, cg) ==
    LET tpe == replaced_expr.tpe
    IN  Tr(<<>>,
           irt_Identifier(irt_Variable(fresh_name(name, cg.tmp_vars), SyntheticVariable, tpe,
                                       cg.var_idx),
                          tpe),
           [cg EXCEPT !.tmp_vars = get_incr(name, @), !.var_idx = @ + 1])

unimplemented_expr(expr, cg) == new_expression_replacing_var("unimpl", expr, cg)

get_var(expr, ref, cg) ==
    IF ref \notin DOMAIN cg.var_decls THEN new_expression_replacing_var("unknown", expr, cg)
    ELSE LET var == cg.var_decls[ref]
         IN  IF ref \in cg.to_spill
             THEN Tr(<<>>, irt_FunCall("Get", var.index, <<stack>>, var.type_hint, FALSE, <<>>),
                     cg)
             ELSE Tr(<<>>, irt_Identifier(var, var.type_hint), cg)

\* the key (decl, attribute) of substitutions
Key(decl, attribute) == decl \o "'" \o attribute

\* substitutions[key] = expr
with_key(substitutions, key, expr) ==
    [k \in DOMAIN substitutions \cup {key} |-> IF k = key THEN expr ELSE substitutions[k]]

\* the value a name is bound to: the element of a set of one element
the(S) == CHOOSE x \in S : TRUE

RECURSIVE transform_expr(_, _)
RECURSIVE transform_exprs(_, _)
RECURSIVE gen_split(_, _, _, _)
RECURSIVE transform_short_circuit_ops(_, _)
RECURSIVE gen_actual_dest(_, _, _)
RECURSIVE gen_contract_conds(_, _, _, _, _)
RECURSIVE out_arg_assignments(_, _, _, _, _)
RECURSIVE gen_call_expr(_, _, _, _)
RECURSIVE gen_contract_conditions(_, _, _, _, _, _, _)

\* [transform_expr(e) for e in exprs]: the pre-statements in order, and the expressions
transform_exprs(exprs, cg) ==
    IF exprs = <<>> THEN [stmts |-> <<>>, exprs |-> <<>>, cg |-> cg]
    ELSE the({the({[stmts |-> first.stmts \o rest.stmts,
                    exprs |-> <<first.expr>> \o rest.exprs, cg |-> rest.cg] :
                        rest \in {transform_exprs(Tail(exprs), first.cg)}}) :
                  first \in {transform_expr(Head(exprs), cg)}})

\* gen_split_stmt(cond, then_stmts, else_stmts): the branches are transformed by the
\* caller before cond is
gen_split(cond, then_stmts, else_stmts, cg) ==
    the({LET not_cond == irt_FunCall("!", 0, <<c.expr>>, c.expr.type_hint, FALSE, <<>>)
         IN  Tr(c.stmts \o <<irt_SplitStmt(<<<<irt_AssumeStmt(c.expr, "")>> \o then_stmts,
                                            <<irt_AssumeStmt(not_cond, "")>> \o else_stmts>>)>>,
                NoExpr, c.cg) :
            c \in {transform_expr(cond, cg)}})

\* the and-then branch without the nesting: the two operands are evaluated before the split
flat_and_then(left, right, res_eq_true, res_eq_false, cg) ==
    the({the({LET both_conds == irt_FunCall("&&", 0, <<l.expr, r.expr>>, BooleanType, FALSE,
                                            <<>>)
                  neither == irt_FunCall("!", 0, <<both_conds>>, BooleanType, FALSE, <<>>)
              IN  Tr(l.stmts \o r.stmts
                        \o <<irt_SplitStmt(<<<<irt_AssumeStmt(both_conds, ""), res_eq_true>>,
                                             <<irt_AssumeStmt(neither, ""), res_eq_false>>>>)>>,
                     NoExpr, l.cg) :
                l \in {transform_expr(left, r.cg)}}) :
            r \in {transform_expr(right, cg)}})

\* the OpAndThen branch of transform_short_circuit_ops
nested_and_then(left, right, res_eq_true, res_eq_false, cg) ==
    the({gen_split(left, inner.stmts, <<res_eq_false>>, inner.cg) :
            inner \in {gen_split(right, <<res_eq_true>>, <<res_eq_false>>, cg)}})

transform_short_circuit_ops(bin_expr, cg) ==
    the({LET res_eq_true == irt_AssignStmt(res.expr, irt_Lit(1, bin_expr.tpe))
             res_eq_false == irt_AssignStmt(res.expr, irt_Lit(0, bin_expr.tpe))
             left == bin_expr.args[1]
             right == bin_expr.args[2]
         IN  the({Tr(res_stmts.stmts, res.expr, res_stmts.cg) :
                    res_stmts \in
                        {IF bin_expr.op = "and then"
                         THEN nested_and_then(left, right, res_eq_true, res_eq_false, res.cg)
                         ELSE the({gen_split(left, <<res_eq_true>>, inner.stmts, inner.cg) :
                                    inner \in {gen_split(right, <<res_eq_true>>,
                                                         <<res_eq_false>>, res.cg)}})}}) :
            res \in {new_expression_replacing_var("tmp", bin_expr, cg)}})

\* transform_dereference(derefed_expr, deref_type, deref_orig)
transform_dereference(derefed_expr, deref_type, cg) ==
    the({LET assumed_expr == irt_FunCall("!=", 0, <<e.expr, irt_Lit(0, derefed_expr.tpe)>>,
                                         BooleanType, FALSE, <<>>)
         IN  Tr(e.stmts \o <<irt_AssumeStmt(assumed_expr, "DerefCheck")>>,
                irt_FunCall("deref", 0, <<e.expr, stack>>, deref_type, FALSE, <<>>), e.cg) :
            e \in {transform_expr(derefed_expr, cg)}})

\* the args of the FunCall build_lit makes for a text of n characters
RECURSIVE string_args(_, _)
string_args(lit, n) ==
    IF n = 0 THEN <<lit>>
    ELSE string_args(lit, n - 1) \o <<irt_Lit(n, universal_int), irt_Lit(0, "Character")>>

\* param_types a BinOp or UnOp FunCall would carry if it listed its operand types
operand_param_types(expr) == [n \in DOMAIN expr.args |-> expr.tpe]

\* the param_types of the FunCall made for a BinOp or an UnOp: there are none
operator_param_types(expr) == <<>>

operator_funcall(expr, operands) ==
    LET param_types == operator_param_types(expr)
    IN  irt_FunCall(expr.op, 0, operands, expr.tpe, param_types # <<>>, param_types)

\* the expressions transform_expr hands to gen_call_expr: a CallExpr, an Identifier that
\* is not substituted and refers to a subprogram, a DottedName that refers to a subprogram
is_call(expr, cg) ==
    \/ expr.k = "CallExpr"
    \/ /\ expr.k = "Identifier"
       /\ expr.ref # ""
       /\ expr.ref \notin DOMAIN cg.substitutions
       /\ expr.ref \in DOMAIN Subprograms
    \/ expr.k = "DottedName" /\ expr.ref # ""

transform_expr(expr, cg) ==
    CASE expr.k = "BinOp" ->
            IF expr.op \in {"and then", "or else"} THEN transform_short_circuit_ops(expr, cg)
            ELSE the({the({Tr(lhs.stmts \o rhs.stmts,
                               operator_funcall(expr, <<lhs.expr, rhs.expr>>), rhs.cg) :
                            rhs \in {transform_expr(expr.args[2], lhs.cg)}}) :
                        lhs \in {transform_expr(expr.args[1], cg)}})
      [] expr.k = "UnOp" ->
            the({Tr(inner.stmts, operator_funcall(expr, <<inner.expr>>), inner.cg) :
                    inner \in {transform_expr(expr.args[1], cg)}})
      [] is_call(expr, cg) ->
            gen_call_expr(IF expr.k = "CallExpr" THEN expr.args[1] ELSE expr,
                          IF expr.k = "CallExpr" THEN Tail(expr.args) ELSE <<>>, expr.tpe, cg)
      [] expr.k = "Identifier" /\ ~is_call(expr, cg) ->
            IF expr.ref = "" THEN unimplemented_expr(expr, cg)
            ELSE IF expr.ref \in DOMAIN cg.substitutions
            THEN Tr(<<>>, cg.substitutions[expr.ref], cg)
            ELSE get_var(expr, expr.ref, cg)
      [] expr.k = "DottedName" /\ ~is_call(expr, cg) ->
            the({LET info == field_info(expr.n)
                 IN  Tr(prefix.stmts,
                        irt_FunCall("Get", info.index, <<prefix.expr>>, expr.tpe, TRUE,
                                    field_access_param_types(info)),
                        prefix.cg) :
                    prefix \in {transform_expr(expr.args[1], cg)}})
      [] expr.k = "IntLiteral" -> Tr(<<>>, irt_Lit(expr.n, expr.tpe), cg)
      [] expr.k = "StringLiteral" ->
            the({LET build_lit == irt_FunCall("String", 0, string_args(lit.expr, expr.n),
                                              expr.tpe, TRUE,
                                              string_literal_param_types(expr.tpe, expr.n))
                 IN  Tr(<<irt_AssignStmt(lit.expr, build_lit)>>, lit.expr, lit.cg) :
                    lit \in {new_expression_replacing_var("tmp", expr, cg)}})
      [] expr.k = "ExplicitDeref" -> transform_dereference(expr.args[1], expr.tpe, cg)
      [] expr.k = "AttributeRef" /\ expr.op \in {"result", "old"}
                /\ Key(expr.ref, expr.op) \in DOMAIN cg.substitutions ->
            Tr(<<>>, cg.substitutions[Key(expr.ref, expr.op)], cg)
      [] OTHER -> unimplemented_expr(expr, cg)

gen_actual_dest(dest, expr, cg) ==
    CASE dest.k \in {"Identifier", "DefiningName"} ->
            LET var == cg.var_decls[dest.ref]
            IN  IF dest.ref \in cg.to_spill
                THEN [stmts |-> <<>>, id |-> stack,
                      expr |-> irt_FunCall("Updated", var.index, <<stack, expr>>, StackType, TRUE,
                                           stack_assign_param_types(var)),
                      cg |-> cg]
                ELSE [stmts |-> <<>>, id |-> irt_Identifier(var, var.type_hint), expr |-> expr,
                      cg |-> cg]
      [] OTHER ->
            the({CASE dest.k = "DottedName" ->
                        the({[ret EXCEPT !.stmts = prefix.stmts \o @] :
                                ret \in {LET info == field_info(dest.n)
                                         IN  gen_actual_dest(dest.args[1],
                                                irt_FunCall("Updated", info.index,
                                                            <<prefix.expr, expr>>,
                                                            dest.args[1].tpe, TRUE,
                                                            field_assign_param_types(info)),
                                                prefix.cg)}})
                   [] dest.k = "CallExpr" ->
                        the({the({[ret EXCEPT
                                    !.stmts = prefix.stmts \o @ \o suffixes.stmts] :
                                    ret \in {gen_actual_dest(dest.args[1],
                                                irt_FunCall("updated", 0,
                                                    <<prefix.expr, expr>> \o suffixes.exprs,
                                                    dest.args[1].tpe, TRUE,
                                                    array_assign_param_types(dest.args[1].tpe)),
                                                suffixes.cg)}}) :
                                suffixes \in {transform_exprs(Tail(dest.args), prefix.cg)}})
                   [] OTHER ->
                        [stmts |-> prefix.stmts, id |-> stack,
                         expr |-> irt_FunCall("updated", 0, <<stack, prefix.expr, expr>>,
                                     StackType, TRUE,
                                     deref_assign_param_types(dest.args[1].tpe, dest.tpe)),
                         cg |-> prefix.cg] :
                    prefix \in {transform_expr(dest.args[1], cg)}})

gen_assignment(assign_dest, expr_pre_stmts, expr, cg) ==
    the({Tr(dest.stmts \o expr_pre_stmts \o <<irt_AssignStmt(dest.id, dest.expr)>>, NoExpr,
            dest.cg) :
            dest \in {gen_actual_dest(assign_dest, expr, cg)}})

\* the assume statements of the contract expressions conds from position n on
gen_contract_conds(conds, n, kind, acc, cg) ==
    IF n > Len(conds) THEN Tr(acc, NoExpr, cg)
    ELSE the({gen_contract_conds(conds, n + 1, kind,
                                 acc \o cond.stmts \o <<irt_AssumeStmt(cond.expr, kind)>>,
                                 cond.cg) :
                cond \in {transform_expr(conds[n], cg)}})

\* the substitutions gen_contract_conditions installs before the preconditions
pre_substitutions(substitutions, params, args_in) ==
    LET names == {params[i].name : i \in DOMAIN params}
    IN  [k \in DOMAIN substitutions \cup names |->
            IF k \in names THEN args_in[CHOOSE i \in DOMAIN params : params[i].name = k]
            ELSE substitutions[k]]

\* the substitutions gen_contract_conditions installs before the postconditions
post_substitutions(substitutions, proc, params, args_in, args_out, ret) ==
    LET outs == {i \in DOMAIN params : i \in DOMAIN args_out}
        names == {params[i].name : i \in outs}
        olds == {Key(params[i].name, "old") : i \in outs}
        result == Key(proc, "result")
    IN  [k \in DOMAIN substitutions \cup names \cup olds \cup {result} |->
            IF k \in names THEN args_out[CHOOSE i \in outs : params[i].name = k]
            ELSE IF k \in olds
            THEN args_in[CHOOSE i \in outs : Key(params[i].name, "old") = k]
            ELSE IF k = result THEN ret
            ELSE substitutions[k]]

gen_contract_conditions(proc, pres, posts, args_in, args_out, ret, cg) ==
    LET params == Subprograms[proc].params
    IN  the({the({[pre_stmts |-> pre_stmts.stmts, post_stmts |-> post_stmts.stmts,
                   cg |-> post_stmts.cg] :
                    post_stmts \in
                        {gen_contract_conds(posts, 1, "postcondition", <<>>,
                            [pre_stmts.cg EXCEPT
                                !.substitutions = post_substitutions(@, proc, params, args_in,
                                                                     args_out, ret)])}}) :
                pre_stmts \in
                    {gen_contract_conds(pres, 1, "precondition", <<>>,
                        [cg EXCEPT !.substitutions = pre_substitutions(@, params, args_in)])}})

\* out_params: the position and the type of every out and in out parameter, then the
\* stack for a subprogram that writes the global state
out_params_of(subp) ==
    LET positions == SelectSeq([n \in DOMAIN subp.params |-> n],
                               LAMBDA n : subp.params[n].mode \in {"out", "in out"})
    IN  [k \in DOMAIN positions |-> [i |-> positions[k], tpe |-> subp.params[positions[k]].tpe]]
        \o (IF subp.global_access = "writes"
            THEN <<[i |-> Len(subp.params) + 1, tpe |-> StackType]>>
            ELSE <<>>)

\* the component of the return value that out_arg_exprs reads for the k-th out parameter
out_component(k) == k - 1

\* out_arg_exprs: by parameter position, Get_i(ret_var) for the i-th entry of out_params
out_arg_exprs_of(out_params, ret_var) ==
    [j \in {out_params[k].i : k \in DOMAIN out_params} |->
        LET k == CHOOSE k \in DOMAIN out_params : out_params[k].i = j
        IN  irt_FunCall("Get", out_component(k), <<ret_var>>, out_params[k].tpe, FALSE, <<>>)]

\* assignments: assign_out(out_arg_exprs[i]) for the entries of out_params from n on
out_arg_assignments(out_params, n, arg_exprs, out_arg_exprs, cg) ==
    IF n > Len(out_params) THEN Tr(<<>>, NoExpr, cg)
    ELSE the({the({Tr(first.stmts \o rest.stmts, NoExpr, rest.cg) :
                    rest \in {out_arg_assignments(out_params, n + 1, arg_exprs, out_arg_exprs,
                                                  first.cg)}}) :
                first \in
                    {LET i == out_params[n].i
                     IN  IF i > Len(arg_exprs)
                         THEN Tr(<<irt_AssignStmt(stack,
                                    irt_FunCall("copy_offset", 0, <<stack, out_arg_exprs[i]>>,
                                                StackType, FALSE, <<>>))>>,
                                 NoExpr, cg)
                         ELSE gen_assignment(arg_exprs[i], <<>>, out_arg_exprs[i], cg)}})

\* the statements of a call with out parameters or contracts, with the preconditions assumed after the call
call_before_preconditions(suffix_pre_stmts, pre_conds, call, post_conds, assignments) ==
    suffix_pre_stmts \o call \o pre_conds \o post_conds \o assignments

\* what gen_call_expr returns for a call with out parameters or contracts
ordered_call(suffix_pre_stmts, pre_conds, call, post_conds, assignments) ==
    suffix_pre_stmts \o pre_conds \o call \o post_conds \o assignments

\* the static call branch of gen_call_expr for a subprogram with out parameters or
\* contracts, after the return variable is made: the assignments of the out components,
\* then the contract conditions, then the statements in order
gen_returning_call(name, ref, arg_exprs, pre_stmts, suffix_exprs, out_params, out_arg_exprs, call, res, cg) ==
    the({the({Tr(ordered_call(pre_stmts, conds.pre_stmts, call, conds.post_stmts,
                              assignments.stmts),
                 res, conds.cg) :
                conds \in {gen_contract_conditions(name, ref.pres, ref.posts, suffix_exprs,
                                                   out_arg_exprs, res, assignments.cg)}}) :
            assignments \in {out_arg_assignments(out_params, 1, arg_exprs, out_arg_exprs, cg)}})

\* the static call branch of gen_call_expr, after the prefix and the arguments are
\* transformed
gen_static_call(prefix, args, type_hint, suffixes, prefix_expr_tr) ==
    the({LET arg_exprs == IF ref.dottable THEN <<prefix.args[1]>> \o args ELSE args
             suffix_pre_stmts == prefix_expr_tr.stmts \o suffixes.stmts
             with_stack == ref.global_access # "ignores"
             offset == prefix_expr_tr.cg.var_idx
         IN  the({IF Len(out_params) = 0 /\ Len(ref.pres) = 0 /\ Len(ref.posts) = 0
                  THEN Tr(suffix_pre_stmts,
                          irt_FunCall(prefix.ref, 0, suffix_exprs, type_hint, TRUE,
                                      subp_param_types),
                          prefix_expr_tr.cg)
                  ELSE LET ret_tpe == IF Len(out_params) # 0 THEN "ExtendedCallReturnType"
                                      ELSE type_hint
                           cg1 == prefix_expr_tr.cg
                       IN  the({gen_returning_call(prefix.ref, ref, arg_exprs, suffix_pre_stmts,
                                    suffix_exprs, out_params,
                                    out_arg_exprs_of(out_params, ret_var),
                                    <<irt_AssignStmt(ret_var,
                                        irt_FunCall(prefix.ref, 0, suffix_exprs, ret_tpe, TRUE,
                                                    subp_param_types))>>,
                                    IF type_hint = "" THEN NoExpr
                                    ELSE IF Len(out_params) = 0 THEN ret_var
                                    ELSE irt_FunCall("Get", Len(out_params), <<ret_var>>,
                                                     type_hint, FALSE, <<>>),
                                    [cg1 EXCEPT !.tmp_vars = get_incr("ret", @),
                                                !.var_idx = @ + 1]) :
                                ret_var \in
                                    {irt_Identifier(
                                        irt_Variable(fresh_name("ret", cg1.tmp_vars),
                                                     SyntheticVariable, ret_tpe, cg1.var_idx),
                                        ret_tpe)}}) :
                    suffix_exprs \in
                        {(IF ref.dottable THEN <<prefix_expr_tr.expr>> ELSE <<>>)
                         \o suffixes.exprs
                         \o (IF with_stack
                             THEN <<irt_FunCall("Offset", offset, <<stack>>, StackType, FALSE,
                                                <<>>)>>
                             ELSE <<>>)},
                    out_params \in {out_params_of(ref)},
                    subp_param_types \in {subprogram_param_types(ref, with_stack)}}) :
            ref \in {Subprograms[prefix.ref]}})

gen_call_expr(prefix, args, type_hint, cg) ==
    the({IF prefix.k \in {"Identifier", "DottedName"} /\ prefix.ref \in DOMAIN Subprograms
         THEN the({gen_static_call(prefix, args, type_hint, suffixes, prefix_expr_tr) :
                    prefix_expr_tr \in
                        {IF Subprograms[prefix.ref].dottable
                         THEN transform_expr(prefix.args[1], suffixes.cg)
                         ELSE Tr(<<>>, NoExpr, suffixes.cg)}})
         ELSE IF is_array_type_decl(prefix.tpe)
         THEN the({Tr(prefix_expr_tr.stmts \o suffixes.stmts,
                      irt_FunCall("call", 0, <<prefix_expr_tr.expr>> \o suffixes.exprs,
                                  type_hint, TRUE, array_access_param_types(prefix.tpe)),
                      prefix_expr_tr.cg) :
                    prefix_expr_tr \in {transform_expr(prefix, suffixes.cg)}})
         ELSE unimplemented_expr(prefix, suffixes.cg) :
            suffixes \in {transform_exprs(args, cg)}})

NoLal == lal_Expr("None", "", 0, "", "", <<>>)

ObjectDecl(id, tpe, default) == [id |-> id, tpe |-> tpe, default |-> default]

lal_Stmt(k, dest, expr) == [k |-> k, dest |-> dest, expr |-> expr]

lal_AssignStmt(dest, expr) == lal_Stmt("AssignStmt", dest, expr)
lal_CallStmt(call) == lal_Stmt("CallStmt", NoLal, call)

\* the AssignStmt branch of transform_stmt
transform_assign_stmt(stmt, cg) ==
    the({gen_assignment(stmt.dest, e.stmts, e.expr, e.cg) :
            e \in {transform_expr(stmt.expr, cg)}})

\* the CallStmt branch of transform_stmt
transform_call_stmt(stmt, cg) ==
    LET call_expr == stmt.expr
        named == call_expr.k \in {"Identifier", "DottedName"}
    IN  the({Tr(call.stmts, NoExpr, call.cg) :
                call \in {gen_call_expr(IF named THEN call_expr ELSE call_expr.args[1],
                                        IF named THEN <<>> ELSE Tail(call_expr.args),
                                        call_expr.tpe, cg)}})

\* the ObjectDecl branch of transform_decl, for a declaration of one name
transform_object_decl(decl, cg) ==
    LET var == irt_Variable(decl.id, "", decl.tpe, cg.var_idx)
        cg1 == [cg EXCEPT !.var_decls = with_key(@, decl.id, var), !.var_idx = @ + 1]
    IN  IF decl.default = NoLal
        THEN Tr(<<irt_ReadStmt(irt_Identifier(var, decl.tpe))>>, NoExpr, cg1)
        ELSE the({the({Tr(dval.stmts \o dest.stmts \o <<irt_AssignStmt(dest.id, dest.expr)>>,
                          NoExpr, dest.cg) :
                        dest \in {gen_actual_dest(lal_DefiningName(decl.id, decl.tpe),
                                                  dval.expr, dval.cg)}}) :
                    dval \in {transform_expr(decl.default, cg1)}})

\* transform_spec for the parameters from position n on, then the result variable
RECURSIVE transform_params(_, _, _)
transform_params(params, n, cg) ==
    IF n > Len(params) THEN cg
    ELSE transform_params(params, n + 1,
            [cg EXCEPT !.var_decls = with_key(@, params[n].name,
                                         irt_Variable(params[n].name, "", params[n].tpe,
                                                      cg.var_idx)),
                       !.var_idx = @ + 1])

transform_spec(subp, cg) ==
    LET with_params == transform_params(subp.params, 1, cg)
    IN  IF subp.returns = "" THEN with_params
        ELSE [with_params EXCEPT !.tmp_vars = get_incr("result", @), !.var_idx = @ + 1]

\* the statements of each declaration and statement from position n on, in order
RECURSIVE transform_body_from(_, _, _, _)
transform_body_from(nodes, n, acc, cg) ==
    IF n > Len(nodes) THEN [parts |-> acc, cg |-> cg]
    ELSE the({transform_body_from(nodes, n + 1, Append(acc, t.stmts), t.cg) :
                t \in {IF "id" \in DOMAIN nodes[n] THEN transform_object_decl(nodes[n], cg)
                       ELSE IF nodes[n].k = "AssignStmt" THEN transform_assign_stmt(nodes[n], cg)
                       ELSE transform_call_stmt(nodes[n], cg)}})

\* gen_ir for the body of G: the statements each declaration and each statement lowers to
gen_ir_parts(body, to_spill) ==
    LET cg0 == [tmp_vars |-> NoTmpVars, var_idx |-> 1, substitutions |-> [k \in {} |-> NoExpr],
                var_decls |-> [k \in {} |-> NoVariable], to_spill |-> to_spill]
        n == Len(body.decls)
    IN  the({[decls |-> SubSeq(all.parts, 1, n), stmts |-> SubSeq(all.parts, n + 1, Len(all.parts)),
              cg |-> all.cg] :
                all \in {transform_body_from(body.decls \o body.stmts, 1, <<>>,
                                             transform_spec(Subprograms["G"], cg0))}})

\* the names of the body of G: its parameters, its local variables a, s, b, r, v, p and t,
\* a variable g that the body does not declare, and a name that is not resolved
Name(ref) ==
    lal_Identifier(ref, CASE ref \in {"r"} -> "Rec"
                          [] ref \in {"v"} -> "Arr"
                          [] ref \in {"p"} -> "Ptr"
                          [] ref \in {"t"} -> "Str"
                          [] ref \in {"b"} -> BooleanType
                          [] OTHER -> Integer)

Call(subp, suffix) ==
    lal_CallExpr(lal_Identifier(subp, Subprograms[subp].returns), suffix,
                 IF subp = "A" THEN Integer ELSE Subprograms[subp].returns)

IntOperands == {lal_IntLiteral(1), Name("a"), Name("s"), Name("G.x"), Name("G.y")}

IntExprs ==
    IntOperands
    \cup {Name("g"), Name(""), Name("R")}
    \cup {lal_BinOp("+", lal_IntLiteral(1), lal_IntLiteral(2), universal_int),
          lal_BinOp("+", lal_IntLiteral(1), Name("a"), Integer)}
    \cup {lal_BinOp("+", Name("a"), Name("s"), Integer), lal_UnOp("-", lal_IntLiteral(1), universal_int)}
    \cup {lal_DottedName(Name("r"), 0, "", Integer), lal_ExplicitDeref(Name("p"), Integer)}
    \cup {lal_CallExpr(Name("v"), <<e>>, Integer) : e \in {lal_IntLiteral(1), Name("s")}}
    \cup {Call("F", <<e>>) : e \in {lal_IntLiteral(1), Name("a")}}
    \cup {Call("C", <<e>>) : e \in {lal_IntLiteral(1), Name("s")}}
    \cup {Call("A", <<lal_IntLiteral(1)>>)}
    \cup {lal_CallExpr(lal_DottedName(Name("r"), 0, "D", Integer), <<lal_IntLiteral(1)>>, Integer)}
    \cup {Call("G", <<e, o>>) : e \in {lal_IntLiteral(1), Name("G.x")},
                                 o \in {Name("a"), Name("s"), Name("G.y")}}

Conds ==
    {lal_BinOp(">", e, lal_IntLiteral(0), BooleanType) :
        e \in {Name("a"), Name("s"), Call("C", <<Name("a")>>), Call("G", <<Name("a"), Name("s")>>)}}

BoolExprs ==
    Conds \cup {lal_BinOp(op, c1, c2, BooleanType) : op \in {"and then", "or else"},
                                               c1 \in Conds, c2 \in Conds}

Dests ==
    {Name("a"), Name("s"), lal_DottedName(Name("r"), 0, "", Integer),
     lal_CallExpr(Name("v"), <<lal_IntLiteral(1)>>, Integer), lal_ExplicitDeref(Name("p"), Integer)}

SourceAssigns ==
    {lal_AssignStmt(dest, e) : dest \in Dests, e \in IntExprs}
    \cup {lal_AssignStmt(Name("b"), e) : e \in BoolExprs}
    \cup {lal_AssignStmt(Name("t"), lal_StringLiteral(n)) : n \in 0..MaxText}

SourceCalls ==
    {lal_CallStmt(Call("P", <<lal_IntLiteral(1), o>>)) : o \in {Name("a"), Name("s")}}
    \cup {lal_CallStmt(Call("W", <<e>>)) : e \in {lal_IntLiteral(1), Name("a")}}
    \cup {lal_CallStmt(Call("Q", <<lal_StringLiteral(1), o, u>>)) :
            o \in {Name("a"), Name("s")}, u \in {Name("a"), Name("s"), Name("G.y")}}

\* the statements that call a subprogram with contracts or out parameters
CallingStmts ==
    SourceCalls
    \cup {lal_AssignStmt(Name("a"), Call("G", <<e, o>>)) :
            e \in {lal_IntLiteral(1), Name("G.x")}, o \in {Name("s"), Name("G.y")}}
    \cup {lal_AssignStmt(Name("a"), Call("C", <<lal_IntLiteral(1)>>))}

\* the statements that read a parameter or a local variable
ReadingStmts ==
    {lal_AssignStmt(dest, e) : dest \in {Name("a"), Name("s")},
                               e \in {Name("a"), Name("G.x"), Name("G.y")}}
    \cup {lal_AssignStmt(Name("a"), Call("F", <<Name("G.x")>>))}

SourceDecls3 ==
    {<<ObjectDecl("a", Integer, da), ObjectDecl("s", Integer, ds), ObjectDecl("b", BooleanType, NoLal),
       ObjectDecl("r", "Rec", NoLal), ObjectDecl("v", "Arr", NoLal), ObjectDecl("p", "Ptr", NoLal),
       ObjectDecl("t", "Str", NoLal)>> :
        da \in {NoLal, lal_IntLiteral(0)}, ds \in {NoLal, lal_IntLiteral(1), Name("G.x")}}

Bodies ==
    [decls : SourceDecls3,
     stmts : {<<stmt>> : stmt \in SourceAssigns \cup SourceCalls}
             \cup {<<first, second>> : first \in CallingStmts, second \in ReadingStmts}]

SpillSets == SUBSET {"a", "s"}

\* every statement of a statement list, those of the branches of its splits included
RECURSIVE AllStmts(_)
AllStmts(stmts) ==
    IF stmts = <<>> THEN {}
    ELSE LET stmt == Head(stmts)
         IN  {stmt} \cup AllStmts(Tail(stmts))
             \cup UNION {AllStmts(stmt.branches[n]) : n \in DOMAIN stmt.branches}

\* an expression and the expressions it is made of
RECURSIVE SubExprs(_)
SubExprs(expr) == {expr} \cup UNION {SubExprs(expr.args[n]) : n \in DOMAIN expr.args}

StmtExprs(stmts) == UNION {SubExprs(stmt.id) \cup SubExprs(stmt.expr) : stmt \in AllStmts(stmts)}

\* the statements of a list of parts, in order
RECURSIVE Concatenated(_)
Concatenated(parts) == IF parts = <<>> THEN <<>> ELSE Head(parts) \o Concatenated(Tail(parts))

\* gen_ir(ctx, subp, typer) on a body of G
GenIrBody ==
    /\ last.op = "none"
    /\ \E body \in Bodies, to_spill \in SpillSets :
        \E res \in {gen_ir_parts(body, to_spill)} :
            last' = [op |-> "gen_ir_body", body |-> body, to_spill |-> to_spill,
                     decls |-> res.decls, stmts |-> res.stmts,
                     program |-> Concatenated(res.decls) \o Concatenated(res.stmts),
                     var_decls |-> res.cg.var_decls]
    /\ UNCHANGED <<array_vars, def_dict, interp_vars>>

NextBody == GenIrBody

SpecBody == InitIR /\ [][NextBody]_vars

----------------------------------------------------------------------------
(* The report of the collecting semantics: format_analysis_results over    *)
(* the semantics of a lowered body.  A dict is the sequence of its items   *)
(* in iteration order when it is read, and the set of its items when it is *)
(* built; json.dumps with sort_keys writes the items of a dict by key.     *)

\* SyntheticVariable.is_purpose_of(var)
is_purpose_of(var) == var.purpose = SyntheticVariable

\* the order of str on the names of the nodes
NodeNames == <<"n1", "n2">>

name_rank(name) == CHOOSE n \in DOMAIN NodeNames : NodeNames[n] = name

cfg_node(name) == [name |-> name]

\* the order of traces, tuples of nodes compared item by item, on the traces of at most
\* two nodes
trace_rank(trace) ==
    IF trace = <<>> THEN 0
    ELSE (Len(NodeNames) + 1) * name_rank(trace[1].name)
            + (IF Len(trace) > 1 THEN name_rank(trace[2].name) ELSE 0)

\* sorted(items, key=...) for the items <<key, item>>: a stable sort
RECURSIVE sorted_items(_)
sorted_items(keyed) ==
    IF keyed = <<>> THEN <<>>
    ELSE LET n == Len(keyed)
             before == sorted_items(SubSeq(keyed, 1, n - 1))
             at == Cardinality({m \in DOMAIN before : before[m][1] <= keyed[n][1]})
         IN  SubSeq(before, 1, at) \o <<keyed[n]>> \o SubSeq(before, at + 1, Len(before))

\* sorted([n.name for n in trace])
sorted_names(trace) ==
    LET keyed == [n \in DOMAIN trace |-> <<name_rank(trace[n].name), trace[n].name>>]
        names == sorted_items(keyed)
    IN  [n \in DOMAIN names |-> names[n][2]]

\* d[key] = value on the set of items of a dict
with_item(d, key, value) == {item \in d : item[1] # key} \cup {<<key, value>>}

\* the dict a comprehension builds from the items <<key, value>> it yields, in order
RECURSIVE dict_of(_)
dict_of(items) ==
    IF items = <<>> THEN {}
    ELSE with_item(dict_of(SubSeq(items, 1, Len(items) - 1)),
                  items[Len(items)][1], items[Len(items)][2])

\* the items of 'values': var.name and repr(value) for the variables that are not synthetic
RECURSIVE values_items(_)
values_items(values) ==
    IF values = <<>> THEN <<>>
    ELSE LET var == Head(values)[1]
             value == Head(values)[2]
         IN  (IF ~is_purpose_of(var) THEN <<<<var.name, value>>>> ELSE <<>>)
             \o values_items(Tail(values))

\* the list written for a node: one entry for each trace of sorted(state.iteritems(),
\* key=lambda x: x[0])
node_entries(state) ==
    LET keyed == [n \in DOMAIN state |-> <<trace_rank(state[n][1]), state[n]>>]
        traces == sorted_items(keyed)
    IN  [n \in DOMAIN traces |->
            [trace |-> sorted_names(traces[n][2][1]),
             values |-> dict_of(values_items(traces[n][2][2]))]]

\* json.dumps(d, sort_keys=True) of the dict of the nodes: its items by key
dumps(d) ==
    [n \in 1..Cardinality(d) |->
        CHOOSE item \in d :
            Cardinality({other \in d : name_rank(other[1]) < name_rank(item[1])}) = n - 1]

\* format_analysis_results for the semantics of one analysis
format_analysis_results(semantics) ==
    LET keyed == [n \in DOMAIN semantics |->
                    <<name_rank(semantics[n][1].name), semantics[n]>>]
        nodes == sorted_items(keyed)
    IN  dumps(dict_of([n \in DOMAIN nodes |->
                            <<nodes[n][2][1].name, node_entries(nodes[n][2][2])>>]))

\* the variables of a lowered body
ProgramVariables(program) == {e.var : e \in {i \in StmtExprs(program) : i.k = "Identifier"}}

\* an environment of the given variables, as the items of the dict in iteration order: by
\* index, upwards or downwards; the value of a variable is the interval of its index or
\* the same interval for all
RECURSIVE env_items(_, _, _)
env_items(variables, upwards, precise) ==
    IF variables = {} THEN <<>>
    ELSE LET var == CHOOSE v \in variables : \A w \in variables : v.index <= w.index
             item == <<var, IF precise THEN <<var.index, var.index>> ELSE <<0, 0>>>>
             rest == env_items(variables \ {var}, upwards, precise)
         IN  IF upwards THEN <<item>> \o rest ELSE Append(rest, item)

\* the semantics of an analysis that reaches n1 by two traces and n2 by one, with the
\* same environment, in an iteration order of each dict
Semantics(variables, precise, upwards, n1_first, short_first) ==
    LET n1 == cfg_node("n1")
        n2 == cfg_node("n2")
        env == env_items(variables, upwards, precise)
        short == <<<<n1>>, env>>
        long == <<<<n2, n1>>, env>>
        at_n1 == <<n1, IF short_first THEN <<short, long>> ELSE <<long, short>>>>
        at_n2 == <<n2, <<<<<<n2>>, env_items(variables, ~upwards, precise)>>>>>>
    IN  IF n1_first THEN <<at_n1, at_n2>> ELSE <<at_n2, at_n1>>

\* the bodies whose report is written: the body of G with its declarations, or with a
\* block that declares a again before the statement
ReportDecls ==
    LET outer == CHOOSE decls \in SourceDecls3 :
                    decls[1].default = NoLal /\ decls[2].default = NoLal
    IN  {outer, Append(outer, ObjectDecl("a", Integer, NoLal))}

ReportStmts ==
    {lal_AssignStmt(Name("a"), e) :
        e \in {Name("s"), Name("g"), Name(""), Call("C", <<lal_IntLiteral(1)>>),
               Call("G", <<lal_IntLiteral(1), Name("s")>>)}}
    \cup {lal_AssignStmt(Name("b"), lal_BinOp("and then", c, c, BooleanType)) : c \in Conds}
    \cup {lal_AssignStmt(Name("t"), lal_StringLiteral(1))}

ReportBodies == [decls : ReportDecls, stmts : {<<stmt>> : stmt \in ReportStmts}]

\* format_analysis_results on the semantics of a lowered body
FormatAnalysisResults ==
    /\ last.op = "none"
    /\ \E body \in ReportBodies, precise, upwards, n1_first, short_first \in BOOLEAN :
        \E res \in {gen_ir_parts(body, {})} :
            \E program \in {Concatenated(res.decls) \o Concatenated(res.stmts)} :
                \E semantics \in {Semantics(ProgramVariables(program), precise, upwards,
                                            n1_first, short_first)} :
                    last' = [op |-> "format_analysis_results", body |-> body,
                             program |-> program, precise |-> precise,
                             semantics |-> semantics,
                             report |-> format_analysis_results(semantics)]
    /\ UNCHANGED <<array_vars, def_dict, interp_vars>>

NextReport == FormatAnalysisResults

SpecReport == InitIR /\ [][NextReport]_vars

----------------------------------------------------------------------------
(* Properties of the queries.                                              *)

AfterInvGet == last.op = "inv_get"

AfterInValuesOf == last.op = "in_values_of"

\* the concrete indices of index_constr at which array_constr may hold a value of res
FeasibleIndices(D, res, array_constr, index_constr) ==
    {k \in Indices(D) :
        /\ I_le(<<k, k>>, index_constr)
        /\ Defined(array_constr, k)
        /\ ~I_is_empty(I_meet(ValueAt(array_constr, k), res))}

\* the smallest index value that holds the indices of S
Hull(S) ==
    IF S = {} THEN Bot
    ELSE <<CHOOSE k \in S : \A m \in S : k <= m, CHOOSE k \in S : \A m \in S : m <= k>>

RefinedIndex == Hull(FeasibleIndices(domain, last.v, last.a, last.i))

BiggestMeetEmpty ==
    SA_is_empty(SA_meet(domain, biggest_array(domain, last.v, last.i), last.a))

RefinedByUpdated(h) ==
    updated(domain, last.a, I_meet(last.v, get(domain, last.a, h)), h)

\* C7 as stated: on a domain with split and for non-bottom expected and idx_c, inv_get
\* returns None when the meet with the biggest array is empty, arr_c refined by
\* updated when the resulting index value has size 1, and otherwise the pair
\* (arr_c, idx_c) of its inputs.
C7_InputsUnchanged ==
    (AfterInvGet /\ domain.has_split /\ last.v # Bot /\ last.i # Bot) =>
        IF BiggestMeetEmpty THEN last.r = None
        ELSE IF I_size(RefinedIndex) = 1
        THEN ~last.r.none /\ last.r.arr = RefinedByUpdated(RefinedIndex)
        ELSE last.r = Result(last.a, last.i, Bot)

\* C7: on a domain with split, inv_get returns None when the meet with the biggest
\* array is empty or no index of idx_c can hold a value of expected; otherwise, with
\* h the smallest index value holding the indices of idx_c that can, it returns
\* (arr_c refined by updated at h, h) when h has size 1 and (arr_c, h) when not.
C7_RefinedIndex ==
    (AfterInvGet /\ domain.has_split) =>
        /\ BiggestMeetEmpty => last.r = None
        /\ last.r = IF RefinedIndex = Bot THEN None
                    ELSE IF I_size(RefinedIndex) = 1
                    THEN Result(RefinedByUpdated(RefinedIndex), RefinedIndex, Bot)
                    ELSE Result(last.a, RefinedIndex, Bot)

C7_Witness ==
    /\ AfterInvGet /\ domain.has_split
    /\ I_size(RefinedIndex) > 1
    /\ RefinedIndex # last.i
    /\ last.r = Result(last.a, RefinedIndex, Bot)

\* the length of the array inv_get returns before max_elems is enforced
InvGetUncappedLen ==
    Len(updated([domain EXCEPT !.max_elems = Cardinality(Indices(domain))],
                last.a, I_meet(last.v, get(domain, last.a, last.r.idx)), last.r.idx))

AfterBackward == last.op \in {"inv_get", "inv_index_range", "inv_in_values_of"}

\* C9: whenever inv_get, inv_index_range or inv_in_values_of returns a result, the
\* returned array is below the array constraint and the returned index or element
\* value is below its constraint, also when the array constraint has max_elems entries.
C9_OnlyRefines ==
    (AfterBackward /\ ~last.r.none) =>
        /\ SA_le(domain, last.r.arr, last.a)
        /\ last.op = "inv_get" => I_le(last.r.idx, last.i)
        /\ last.op = "inv_in_values_of" => I_le(last.r.val, last.v)

\* the backward functions refine when the array inv_get returns is not collapsed
C9_RefinesUnlessCollapsed ==
    (AfterBackward /\ ~last.r.none
        /\ ~(last.op = "inv_get" /\ domain.has_split /\ I_size(last.r.idx) = 1
             /\ InvGetUncappedLen > domain.max_elems)) =>
        /\ SA_le(domain, last.r.arr, last.a)
        /\ last.op = "inv_get" => I_le(last.r.idx, last.i)
        /\ last.op = "inv_in_values_of" => I_le(last.r.val, last.v)

DocArray == <<<<<<-DocHi, 3>>, <<2, 3>>>>, <<<<4, DocHi>>, <<6, DocHi>>>>>>

\* C10: on a non-empty array, in_values_of(x, arr) is {True} when x is within the elem
\* of some entry, {False} when x meets the elem of no entry, {True, False} when x only
\* partly overlaps the held values and the empty boolean when x is bottom; on the
\* documented array (2,2) gives {True}, (4,5) {False} and (2,10) {True, False}.
C10_InValuesOf ==
    /\ (AfterInValuesOf /\ last.a # <<>>) =>
         last.rb = IF last.v = Bot THEN none
                   ELSE IF \E n \in 1..Len(last.a) : I_le(last.v, last.a[n][2]) THEN true
                   ELSE IF \A n \in 1..Len(last.a) : I_is_empty(I_meet(last.v, last.a[n][2]))
                   THEN false
                   ELSE both
    /\ (AfterInValuesOf /\ domain = DocDomain /\ last.a = DocArray) =>
         /\ last.v = <<2, 2>> => last.rb = true
         /\ last.v = <<4, 5>> => last.rb = false
         /\ last.v = <<2, 10>> => last.rb = both

AfterInvInValuesOf == last.op = "inv_in_values_of"

\* the entries of array whose elem meets x, each with its elem met with x
MetEntries(x, array) ==
    LET met == [n \in 1..Len(array) |-> <<array[n][1], I_meet(x, array[n][2])>>]
    IN  SelectSeq(met, LAMBDA iv : ~I_is_empty(iv[2]))

\* the smallest element value holding every value of x that some entry of array holds
MetValues(D, x, array) ==
    Hull({k \in (D.elem_dom.lo)..(D.elem_dom.hi) :
            /\ I_le(<<k, k>>, x)
            /\ \E n \in 1..Len(array) : I_le(<<k, k>>, array[n][2])})

\* C11: inv_in_values_of(res, x_c, arr_c) is infeasible when x_c is empty, arr_c is
\* empty or res is the empty boolean; for res = {True} it returns the join of the
\* meets of x_c with the elems and arr_c with each elem met with x_c, entries of empty
\* meet removed, or infeasible when no entry remains; for {False} and {True, False}
\* it returns (x_c, arr_c); on the documented array ({True}, (-3,8)) gives
\* ((2,8), [((-10,3),(2,3)), ((4,10),(6,8))]).
C11_InvInValuesOf ==
    /\ AfterInvInValuesOf =>
         last.r = IF last.v = Bot \/ last.a = <<>> \/ last.b = none THEN None
                  ELSE IF last.b = true
                  THEN IF MetEntries(last.v, last.a) = <<>> THEN None
                       ELSE Result(MetEntries(last.v, last.a), Bot,
                                   MetValues(domain, last.v, last.a))
                  ELSE Result(last.a, Bot, last.v)
    /\ (AfterInvInValuesOf /\ domain = DocDomain /\ last.a = DocArray
            /\ last.b = true /\ last.v = <<-3, 8>>) =>
         last.r = Result(<<<<<<-DocHi, 3>>, <<2, 3>>>>, <<<<4, DocHi>>, <<6, 8>>>>>>,
                         Bot, <<2, 8>>)

C11_Witness ==
    /\ AfterInvInValuesOf /\ domain = DocDomain /\ last.a = DocArray
    /\ last.b = true /\ last.v = <<-3, 8>>
    /\ last.r.val = <<2, 8>>
    /\ Len(last.r.arr) = 2

AfterGet == last.op = "get"

AfterIndexRange == last.op = "index_range"

\* C12: get, updated, index_range and in_values_of return bottom of their output
\* domain whenever one of their arguments is the empty array, an empty index value or
\* an empty element value.
C12_BottomArguments ==
    /\ (AfterGet /\ (last.a = SA_empty \/ last.i = Bot)) => last.r.val = Bot
    /\ (AfterUpdated /\ (last.a = SA_empty \/ last.v = Bot \/ last.i = Bot)) =>
            last.r.arr = SA_empty
    /\ (AfterIndexRange /\ last.a = SA_empty) => last.r.idx = Bot
    /\ (AfterInValuesOf /\ (last.a = SA_empty \/ last.v = Bot)) => last.rb = none

\* get, index_range and in_values_of return bottom on a bottom argument
C12_BottomArgumentsOfQueries ==
    /\ (AfterGet /\ (last.a = SA_empty \/ last.i = Bot)) => last.r.val = Bot
    /\ (AfterIndexRange /\ last.a = SA_empty) => last.r.idx = Bot
    /\ (AfterInValuesOf /\ (last.a = SA_empty \/ last.v = Bot)) => last.rb = none

AfterCompare == last.op = "eq"

AfterRequest == last.op = "provider"

\* name, input domains, output domain, out-parameter indices and userdata all equal
AllFieldsEqual(x, y) ==
    \A f \in {"name", "input_domains", "output_domain", "out_param_indices", "userdata"} :
        x[f] = y[f]

\* C13: two signatures are equal iff their five fields are equal, equal signatures
\* have equal hashes, and the provider of a dictionary returns the definition
\* registered for a signature with the same five fields as the requested one and no
\* match when there is none.
C13_SignatureEquality ==
    /\ AfterCompare =>
         /\ last.rb <=> AllFieldsEqual(last.x, last.y)
         /\ last.rb => last.hx = last.hy
    /\ AfterRequest =>
         IF \E e \in def_dict : AllFieldsEqual(e.key, last.sig)
         THEN \E e \in def_dict : AllFieldsEqual(e.key, last.sig) /\ last.r = e.value
         ELSE last.r = PyNone

C13_Witness ==
    /\ AfterRequest
    /\ Cardinality(def_dict) = MaxDefs
    /\ \E e \in def_dict :
         /\ ~AllFieldsEqual(e.key, last.sig)
         /\ e.key.userdata # last.sig.userdata
         /\ Signature_hash(e.key) = Signature_hash(last.sig)
    /\ \E e \in def_dict : AllFieldsEqual(e.key, last.sig) /\ last.r = e.value

AfterSubstituted == last.op = "substituted"

\* the domains of the result are those of sig with dom replaced by by, and the name
\* and the out-parameter indices are those of sig
SubstitutedDomains ==
    /\ last.r.name = last.sig.name
    /\ last.r.out_param_indices = last.sig.out_param_indices
    /\ Len(last.r.input_domains) = Len(last.sig.input_domains)
    /\ \A n \in 1..Len(last.sig.input_domains) :
         last.r.input_domains[n] =
            IF last.sig.input_domains[n] = last.dom THEN last.by
            ELSE last.sig.input_domains[n]
    /\ last.r.output_domain =
            IF last.sig.output_domain = last.dom THEN last.by ELSE last.sig.output_domain

\* C14: sig.substituted(D, D') has every input and output occurrence of D replaced by
\* D' and the name, the other domains, the out-parameter indices and the userdata of
\* sig; substituted(D, D) is equal to sig.
C14_Substituted ==
    AfterSubstituted =>
        /\ SubstitutedDomains
        /\ last.r.userdata = last.sig.userdata
        /\ last.dom = last.by => Signature_eq(last.r, last.sig)

\* substituted replaces the domains and keeps the name and the out-parameter indices
C14_SubstitutedDomains == AfterSubstituted => SubstitutedDomains

AfterInterpret == last.op = "interpret"

\* C15: after any sequence of requests, two requests for equal source types were
\* returned the identical interpretation, the interpretation of a type reached as an
\* inner type of a product, array or modeled type is the one returned for that type,
\* and no type has been interpreted more than once.
C15_Memoized ==
    /\ \A m, n \in 1..Len(returned) :
         returned[m][1] = returned[n][1] => returned[m][2] = returned[n][2]
    /\ \A m \in 1..Len(returned) : objects[returned[m][2]].tpe = returned[m][1]
    /\ \A m \in 1..Len(objects) : \A k \in 1..Len(objects[m].inner) :
         /\ objects[objects[m].inner[k]].tpe = objects[m].tpe.of[k]
         /\ \A n \in 1..Len(returned) :
              returned[n][1] = objects[m].tpe.of[k] => returned[n][2] = objects[m].inner[k]
    /\ \A m, n \in 1..Len(objects) : objects[m].tpe = objects[n].tpe => m = n

C15_Witness ==
    /\ AfterInterpret
    /\ Len(returned) = MaxRequests
    /\ returned[1][1] = returned[MaxRequests][1]
    /\ returned[1][2] = returned[MaxRequests][2]
    /\ \E m \in 1..Len(objects) : \E k \in 1..Len(objects[m].inner) :
         /\ objects[m].tpe.kind = "modeled"
         /\ objects[m].inner[k] = returned[1][2]

AfterModeledInvGet == last.op = "modeled_inv_get"

\* C16: the backward function of an operation promoted to a modeled type returns, at
\* every input position of the modeled domain, a pair below the constraint in the
\* product order: its actual component is below the actual component of the
\* constraint and its ghost component below the ghost component of the constraint.
C16_ModeledOnlyRefines ==
    (AfterModeledInvGet /\ last.r # TypeError) =>
        \A i \in 1..Len(last.r) :
            (i - 1) \in implicitly_converted_inputs(call_sig) =>
                /\ SA_le(domain, last.r[i][1], last.constrs[i][1])
                /\ I_le(last.r[i][2], last.constrs[i][2])

\* the ghost component returned is the top of the model domain
C16_GhostIsTop ==
    (AfterModeledInvGet /\ last.r # TypeError) =>
        \A i \in 1..Len(last.r) :
            (i - 1) \in implicitly_converted_inputs(call_sig) => last.r[i][2] = model_top

AfterProductRequest == last.op = "product_provider"

\* the signature of the equality of the component dom: (dom, dom) -> Bool
ComponentEq(dom) ==
    [name |-> "eq", input_domains |-> <<dom, dom>>, output_domain |-> "Bool",
     out_param_indices |-> <<>>, userdata |-> PyNone]

\* the definition registered for the equality of the component dom, if any
RegisteredEq(dom) == {e.value : e \in {x \in def_dict : x.key = ComponentEq(dom)}}

\* the requested signature is op on (P, P) -> Bool
IsBinRel(op) ==
    last.sig = [name |-> op, input_domains |-> <<last.dom, last.dom>>,
                output_domain |-> "Bool", out_param_indices |-> <<>>, userdata |-> PyNone]

\* C17: the product provider resolves eq (neq) on (P, P) -> Bool iff an eq on
\* (D_i, D_i) -> Bool is registered for every component i, and then the forward and
\* backward functions are built from exactly those component implementations in
\* component order; if some component has no eq there is no definition.
C17_ProductEq ==
    \A op \in {"eq", "neq"} :
        (AfterProductRequest /\ IsBinRel(op)) =>
            LET doms == elem_doms(last.dom)
            IN  IF \A i \in 1..Len(doms) : RegisteredEq(doms[i]) # {}
                THEN /\ last.r.match
                     /\ last.r.value[1].impl = (IF op = "eq" THEN "product_ops.eq"
                                                ELSE "product_ops.neq")
                     /\ Len(last.r.value[1].eq_defs) = Len(doms)
                     /\ Len(last.r.value[2].eq_inv_defs) = Len(doms)
                     /\ \A i \in 1..Len(doms) :
                          <<last.r.value[1].eq_defs[i], last.r.value[2].eq_inv_defs[i]>>
                                \in RegisteredEq(doms[i])
                     /\ last.r.value[2].eq_defs = last.r.value[1].eq_defs
                ELSE ~last.r.match

C17_Witness ==
    /\ AfterProductRequest /\ IsBinRel("neq")
    /\ last.dom = "D2xD1"
    /\ last.r.match
    /\ last.r.value[1].eq_defs[1] # last.r.value[1].eq_defs[2]
    /\ <<last.r.value[1].eq_defs[1], last.r.value[2].eq_inv_defs[1]>> \in RegisteredEq("D2")

\* ---- C18 ----
AfterGenIr == last.op = "gen_ir"

\* the names of the LabelStmt objects of the program tree
ProgramLabels == {s.label : s \in {t \in TreeStmts(last.program) : t.k = "LabelStmt"}}

ProgramGotos == {t \in TreeStmts(last.program) : t.k = "GotoStmt"}

\* C18: in the Program gen_ir returns, every GotoStmt targets a LabelStmt that occurs in
\* the program tree, also when statements were dropped because their lowering failed
C18_GotoTargets ==
    AfterGenIr => \A g \in ProgramGotos : g.label \in ProgramLabels

\* a program with a dropped statement, a return, an exit and a source goto
C18_Witness ==
    /\ AfterGenIr
    /\ last.warnings # <<>>
    /\ \E g \in ProgramGotos : g.label = "end"
    /\ \E g \in ProgramGotos : g.label \notin LabelNames \cup {"end"}
    /\ \E g \in ProgramGotos : g.label \in LabelNames

\* ---- C19 ----
\* C19: a declaration or statement whose lowering fails with a recoverable error is
\* reported, and stands in the program as a statement of its own (a placeholder), so
\* that its effect is not omitted
C19_FailureReplaced ==
    AfterGenIr =>
        \A n \in DOMAIN last.warnings :
            \E s \in TreeStmts(last.program) : s.orig = last.warnings[n]

\* the part of C19 the lowering keeps: a failing statement is reported, the statements
\* around it are lowered, and the program follows the source order
C19_FailureIsolated ==
    AfterGenIr =>
        LET stmts == last.subp.stmts
            top == SelectSeq(last.program, LAMBDA s : s.orig # NoNode)
        IN  /\ \A n \in DOMAIN stmts :
                    stmts[n].k = "AssignStmt" =>
                        IF stmts[n].cond = "raises"
                        THEN \E w \in DOMAIN last.warnings : last.warnings[w] = <<1, n>>
                        ELSE \E p \in DOMAIN last.program : last.program[p].orig = <<1, n>>
            /\ \A p \in DOMAIN top : \A q \in DOMAIN top :
                    p < q => \/ top[p].orig[1] < top[q].orig[1]
                             \/ top[p].orig[1] = top[q].orig[1] /\ top[p].orig[2] <= top[q].orig[2]

\* ---- C20 ----
AfterVisitAssign == last.op = "visit_assign"

BothUniversal ==
    /\ last.assign.id.type_hint = universal_int
    /\ last.assign.expr.type_hint = universal_int

\* C20: after visit_assign on an AssignStmt whose target and expression both have the
\* universal integer type hint, the target Identifier, its Variable and the assigned
\* expression all carry the chosen concrete type, Integer
C20_NoUniversalLeft ==
    AfterVisitAssign /\ BothUniversal =>
        /\ last.r.id.type_hint = Integer
        /\ last.r_store[last.r.id.var] = Integer
        /\ last.r.expr.type_hint = Integer

\* what visit_assign does for such a statement: the Variable of the target, when its
\* hint is universal, gets Integer; the hint of the target Identifier stays, and the
\* expression gets the hint of the target Identifier
C20_VariableRewritten ==
    AfterVisitAssign /\ BothUniversal =>
        /\ last.store[last.assign.id.var] = universal_int
                => last.r_store[last.r.id.var] = Integer
        /\ last.r.id.type_hint = universal_int
        /\ last.r.expr.type_hint = universal_int

\* ---- C23 ----
\* the values a concrete array represented by array may hold at the concrete index k:
\* those of the paired elem when a slice holds k, any value of Elem otherwise
ConcreteValuesAt(D, array, k) ==
    IF Defined(array, k) THEN ValueAt(array, k) ELSE I_top(D.elem_dom)

\* C23: get is a sound forward transfer for the stated meaning of an abstract array:
\* for a non-empty array and every concrete index k of idx, every value a represented
\* array may hold at k is represented by get(arr, idx); on an index no slice covers the
\* result is not bottom
C23_GetSound ==
    AfterGet /\ ~SA_is_empty(last.a) /\ last.i # Bot =>
        \A k \in last.i[1]..last.i[2] :
            I_le(ConcreteValuesAt(domain, last.a, k), last.r.val)

\* what get computes: the join of the elems whose slice meets idx, so it is sound on
\* the indices of idx that a slice holds
C23_GetSoundWhereDefined ==
    AfterGet /\ ~SA_is_empty(last.a) /\ last.i # Bot =>
        \A k \in last.i[1]..last.i[2] :
            Defined(last.a, k) => I_le(ValueAt(last.a, k), last.r.val)

\* ---- C29 ----
AfterModeledInv == last.op \in {"modeled_inv_get", "modeled_inv_in_values_of"}

\* C29: when the wrapped backward function of the actual domain returns None, the
\* backward function promoted to the modeled type returns None and does not fail; and
\* actual_inv_get returns None, without failing, when inv_get returns None
C29_InfeasiblePropagates ==
    AfterModeledInv =>
        /\ last.inner = None => last.r = None
        /\ (last.op = "modeled_inv_get" /\ last.raw) => last.inner = None

\* what the wrappers do with an infeasible result: both fail with TypeError
C29_InfeasibleFails ==
    AfterModeledInv =>
        /\ last.raw => last.r = TypeError
        /\ (last.op = "modeled_inv_get" /\ last.raw) => last.inner = TypeError
        /\ (last.op = "modeled_inv_in_values_of" /\ last.raw) => last.inner = None

AfterBody == last.op = "gen_ir_body"

\* the FunCalls of the lowered body
BodyFunCalls == {e \in StmtExprs(last.program) : e.k = "FunCall"}

HasUniversalArg(funcall) ==
    \E n \in DOMAIN funcall.args : has_universal_type(funcall.args[n].type_hint)

\* the symbols transform_operator answers for the operators of the lowered bodies
OperatorSymbols == {"+", "-", ">", "="}

C26_OneTypePerArgument ==
    AfterBody =>
        \A f \in BodyFunCalls : f.has_param_types => Len(f.param_types) = Len(f.args)

\* one parameter type per argument, for every FunCall but the call of the parameterless
\* function A whose result is indexed
C26_OneTypePerActual ==
    AfterBody =>
        \A f \in BodyFunCalls :
            (f.has_param_types /\ f.op # "A") => Len(f.param_types) = Len(f.args)

\* ---- C28 ----
\* the Identifiers of the lowered body that name a spilled variable
SpilledIdentifiers(stmts) ==
    {e \in StmtExprs(stmts) : e.k = "Identifier" /\ e.var.name \in last.to_spill}

\* C28: no statement of the lowered body reads, assigns or havocs a spilled variable
\* through an Identifier of the variable.
C28_SpilledOnlyThroughStack == AfterBody => SpilledIdentifiers(last.program) = {}

\* the statements lowered from the statements of the body, and the declarations with a
\* default value, reach a spilled variable through Get_k and Updated_k of the stack only,
\* k being the index of the variable
C28_SpilledThroughStackButHavoc ==
    AfterBody =>
        LET indices == {last.var_decls[v].index : v \in last.to_spill}
            stmts == {stmt \in AllStmts(last.program) : stmt.k # "ReadStmt"}
        IN  /\ \A stmt \in stmts : SpilledIdentifiers(<<stmt>>) = {}
            /\ \A stmt \in AllStmts(last.program) :
                    stmt.k = "ReadStmt" /\ stmt.id.var.name \in last.to_spill
                    => \E n \in DOMAIN last.body.decls :
                            /\ last.body.decls[n].id = stmt.id.var.name
                            /\ last.body.decls[n].default = NoLal
            /\ \A e \in StmtExprs(last.program) :
                    (e.k = "FunCall" /\ e.op \in {"Get", "Updated"} /\ e.args[1] = stack)
                    => e.n \in indices

\* ---- C27 ----
\* the statements the n-th statement of the body lowers to when no statement precedes it
LoweredAlone(n) ==
    gen_ir_parts([decls |-> last.body.decls, stmts |-> <<last.body.stmts[n]>>],
                 last.to_spill).stmts[1]

CallsSelf(stmt) == stmt.expr.k = "CallExpr" /\ stmt.expr.args[1].ref = "G"

\* C27: a statement that follows a call with contracts or out parameters lowers as it
\* does without the call before it, also when the call is a call of G in the body of G.
C27_SubstitutionsScoped ==
    (AfterBody /\ Len(last.body.stmts) = 2) => last.stmts[2] = LoweredAlone(2)

\* the statement after the call lowers as without the call, unless the body calls itself
C27_ScopedUnlessSelfCall ==
    (AfterBody /\ Len(last.body.stmts) = 2 /\ ~CallsSelf(last.body.stmts[1]))
        => last.stmts[2] = LoweredAlone(2)

\* ---- C24 ----
\* the names fresh_name gives to the return variables
RetNames == {fresh_name("ret", [ret |-> k]) : k \in 0..MaxRets}

\* the positions of a statement list that assign a call to a return variable
RetAssigns(part) ==
    {n \in DOMAIN part : part[n].k = "AssignStmt" /\ part[n].id.var.name \in RetNames}

\* the value an assignment stores: the second argument of an update of the stack
StoredValue(stmt) ==
    IF stmt.expr.k = "FunCall" /\ stmt.expr.op \in {"Updated", "copy_offset"}
    THEN stmt.expr.args[2]
    ELSE stmt.expr

\* the positions after the call that store a component of the return variable
ComponentAssigns(part, c) ==
    {n \in DOMAIN part : /\ n > c
                         /\ part[n].k = "AssignStmt"
                         /\ StoredValue(part[n]).op = "Get"
                         /\ StoredValue(part[n]).args = <<part[c].id>>}

Assumes(part, purpose) ==
    {n \in DOMAIN part : part[n].k = "AssumeStmt" /\ part[n].purpose = purpose}

\* the positions of the pre-statements of the arguments: the assignments of a string literal
ArgumentPreStmts(part) ==
    {n \in DOMAIN part : part[n].k = "AssignStmt" /\ part[n].expr.op = "String"}

\* the n-th member of a set of positions, in increasing order
Nth(positions, n) == CHOOSE p \in positions : Cardinality({q \in positions : q < p}) = n - 1

\* what a contract expression of the called subprogram denotes: its parameters are the
\* arguments of the call, and in a postcondition the out components for the out parameters
RECURSIVE Seen(_, _, _, _)
Seen(expr, post, call, ret_var) ==
    LET subp == Subprograms[call.op]
        outs == out_params_of(subp)
        position == CHOOSE i \in DOMAIN subp.params : subp.params[i].name = expr.ref
        component ==
            CHOOSE k \in DOMAIN outs : outs[k].i = position
    IN  CASE expr.k = "IntLiteral" -> irt_Lit(expr.n, expr.tpe)
          [] expr.k = "BinOp" ->
                irt_FunCall(expr.op, 0, [n \in DOMAIN expr.args |->
                                            Seen(expr.args[n], post, call, ret_var)],
                            expr.tpe, FALSE, <<>>)
          [] expr.k = "AttributeRef" /\ expr.op = "old" -> call.args[position]
          [] expr.k = "AttributeRef" /\ expr.op = "result" ->
                irt_FunCall("Get", Len(outs), <<ret_var>>, subp.returns, FALSE, <<>>)
          [] OTHER ->
                IF post /\ \E k \in DOMAIN outs : outs[k].i = position
                THEN irt_FunCall("Get", component - 1, <<ret_var>>, outs[component].tpe, FALSE,
                                 <<>>)
                ELSE call.args[position]

\* the order of the statements of a call, the components read for the out parameters and
\* what the contracts see, for the call at position c of a statement list
CallLowered(part, c) ==
    LET call == part[c].expr
        ret_var == part[c].id
        subp == Subprograms[call.op]
        outs == out_params_of(subp)
        pres == Assumes(part, "precondition")
        posts == Assumes(part, "postcondition")
        assigns == ComponentAssigns(part, c)
    IN  /\ \A a \in ArgumentPreStmts(part) : \A n \in pres \cup {c} : a < n
        /\ \A n \in pres : n < c
        /\ \A n \in posts : c < n /\ \A a \in assigns : n < a
        /\ Cardinality(pres) = Len(subp.pres) /\ Cardinality(posts) = Len(subp.posts)
        /\ \A k \in DOMAIN subp.pres :
                part[Nth(pres, k)].expr = Seen(subp.pres[k], FALSE, call, ret_var)
        /\ \A k \in DOMAIN subp.posts :
                part[Nth(posts, k)].expr = Seen(subp.posts[k], TRUE, call, ret_var)
        /\ Cardinality(assigns) >= Len(outs)
        /\ \A k \in DOMAIN outs :
                LET stmt == part[Nth(assigns, k)]
                    actual == call.args[outs[k].i]
                IN  /\ StoredValue(stmt).n = k - 1
                    /\ IF outs[k].tpe = StackType THEN stmt.id = stack
                       ELSE IF actual.k = "Identifier" THEN stmt.id = actual
                       ELSE stmt.id = stack /\ stmt.expr.n = actual.n

\* the statements of the body that assign the result of a call of a function with
\* contracts or out parameters to a variable
ResultAssigns ==
    {n \in DOMAIN last.stmts :
        /\ last.body.stmts[n].k = "AssignStmt"
        /\ last.body.stmts[n].dest.k = "Identifier"
        /\ last.body.stmts[n].expr.k = "CallExpr"
        /\ Cardinality(RetAssigns(last.stmts[n])) = 1}

\* the value stored by the statement n of the body, and its return variable
ResultOf(n) == StoredValue(last.stmts[n][Len(last.stmts[n])])
RetVarOf(n) == last.stmts[n][Nth(RetAssigns(last.stmts[n]), 1)].id
CalleeOf(n) == Subprograms[last.body.stmts[n].expr.args[1].ref]

\* C24 as stated: the statements of a call with out parameters or contracts are ordered
\* as argument pre-statements, precondition assumes, call, postcondition assumes, out
\* assignments, the k-th out parameter takes component k, the contracts see the arguments
\* and the out components, and the result is component len(out_params).
C24_CallWithResultComponent ==
    AfterBody =>
        /\ \A n \in DOMAIN last.stmts :
                Cardinality(RetAssigns(last.stmts[n])) = 1
                => CallLowered(last.stmts[n], Nth(RetAssigns(last.stmts[n]), 1))
        /\ \A n \in ResultAssigns :
                ResultOf(n) = irt_FunCall("Get", Len(out_params_of(CalleeOf(n))), <<RetVarOf(n)>>,
                                          CalleeOf(n).returns, FALSE, <<>>)

\* C24, amended: the same, but the result of a function without out parameters is the
\* return variable itself.
C24_CallWithResult ==
    AfterBody =>
        /\ \A n \in DOMAIN last.stmts :
                Cardinality(RetAssigns(last.stmts[n])) = 1
                => CallLowered(last.stmts[n], Nth(RetAssigns(last.stmts[n]), 1))
        /\ \A n \in ResultAssigns :
                ResultOf(n) = IF Len(out_params_of(CalleeOf(n))) = 0 THEN RetVarOf(n)
                              ELSE irt_FunCall("Get", Len(out_params_of(CalleeOf(n))),
                                               <<RetVarOf(n)>>, CalleeOf(n).returns, FALSE, <<>>)

\* a call with an argument pre-statement, a precondition, a postcondition and two out
\* parameters, one of them spilled
C24_Witness ==
    /\ AfterBody
    /\ \E n \in DOMAIN last.stmts :
        LET part == last.stmts[n]
        IN  /\ Cardinality(RetAssigns(part)) = 1
            /\ ArgumentPreStmts(part) # {}
            /\ Assumes(part, "precondition") # {}
            /\ Assumes(part, "postcondition") # {}
            /\ Cardinality(ComponentAssigns(part, Nth(RetAssigns(part), 1))) = 2
            /\ \E a \in ComponentAssigns(part, Nth(RetAssigns(part), 1)) : part[a].id = stack

\* ---- C22 ----
\* the paths of a statement list: one branch of every split, the other statements in order
RECURSIVE Paths(_)
Paths(stmts) ==
    IF stmts = <<>> THEN {<<>>}
    ELSE LET stmt == Head(stmts)
             firsts == IF stmt.k = "SplitStmt"
                       THEN UNION {Paths(stmt.branches[n]) : n \in DOMAIN stmt.branches}
                       ELSE {<<stmt>>}
         IN  {first \o rest : first \in firsts, rest \in Paths(Tail(stmts))}

Not(cond) == irt_FunCall("!", 0, <<cond>>, cond.type_hint, FALSE, <<>>)

\* the body is b := C1 op C2
ShortCircuit(op) ==
    /\ AfterBody
    /\ Len(last.body.stmts) = 1
    /\ last.body.stmts[1].expr.k = "BinOp"
    /\ last.body.stmts[1].expr.op = op

\* the paths of b := C1 op C2, from the temporary of the result and the lowered operands:
\* C2 is transformed first, its pre-statements follow the assume of C1 that lets it run
ShortCircuitPaths(and_then) ==
    LET bin_expr == last.body.stmts[1].expr
        cg == gen_ir_parts([decls |-> last.body.decls, stmts |-> <<>>], last.to_spill).cg
        res == new_expression_replacing_var("tmp", bin_expr, cg)
        c2 == transform_expr(bin_expr.args[2], res.cg)
        c1 == transform_expr(bin_expr.args[1], c2.cg)
        dest == last.stmts[1][Len(last.stmts[1])]
        set(value) == irt_AssignStmt(res.expr, irt_Lit(value, BooleanType))
        runs_c2 == IF and_then THEN c1.expr ELSE Not(c1.expr)
        skips_c2 == IF and_then THEN Not(c1.expr) ELSE c1.expr
    IN  /\ dest = irt_AssignStmt(irt_Identifier(last.var_decls["b"], BooleanType), res.expr)
        /\ Paths(last.stmts[1]) =
            {c1.stmts \o <<irt_AssumeStmt(runs_c2, "")>> \o c2.stmts
                \o <<irt_AssumeStmt(c2.expr, ""), set(1), dest>>,
             c1.stmts \o <<irt_AssumeStmt(runs_c2, "")>> \o c2.stmts
                \o <<irt_AssumeStmt(Not(c2.expr), ""), set(0), dest>>,
             c1.stmts \o <<irt_AssumeStmt(skips_c2, ""),
                           set(IF and_then THEN 0 ELSE 1), dest>>}

\* C22: b := C1 and then C2 has three paths: assume(C1), the pre-statements of C2,
\* assume(C2), tmp := True; assume(C1), the pre-statements of C2, assume(not C2),
\* tmp := False; assume(not C1), tmp := False with nothing of C2. For or else, C2 and its
\* pre-statements follow assume(not C1), and assume(C1) is followed by tmp := True alone.
C22_ShortCircuit ==
    /\ ShortCircuit("and then") => ShortCircuitPaths(TRUE)
    /\ ShortCircuit("or else") => ShortCircuitPaths(FALSE)

\* an and then whose second operand has pre-statements
C22_Witness ==
    /\ ShortCircuit("and then")
    /\ transform_expr(last.body.stmts[1].expr.args[2],
                      [tmp_vars |-> NoTmpVars, var_idx |-> 0,
                       substitutions |-> [k \in {} |-> NoExpr], var_decls |-> last.var_decls,
                       to_spill |-> last.to_spill]).stmts # <<>>

\* ---- C25 ----
\* the entries of the enclosing loops, innermost last: the name of the loop and the name
\* of the label that follows its LoopStmt
Enclosing(loops, stmt, label) == Append(loops, [name |-> stmt.label, exit |-> label.label])

\* the loop an exit statement leaves: the innermost one, or the one it names
Target(stmt, loops) ==
    IF stmt.label = "" THEN loops[Len(loops)]
    ELSE loops[CHOOSE n \in DOMAIN loops : loops[n].name = stmt.label]

IsGotoTo(ir_stmt, loop) == ir_stmt.k = "GotoStmt" /\ ir_stmt.label = loop.exit

\* the IR statement list ir is the lowering of the source statement list src inside the
\* loops: a loop is a LoopStmt and its exit label, a while loop a LoopStmt that starts
\* with the pre-statements of the condition and assume(C), then assume(not C), then the
\* exit label; an exit is a goto to the exit label of its loop, inside a split of
\* [assume(cond), goto] and [assume(not cond)] when it has a condition
RECURSIVE LoopsLowered(_, _, _)
LoopsLowered(src, ir, loops) ==
    IF src = <<>> THEN ir = <<>>
    ELSE LET stmt == Head(src)
             pre == Len(cond_pre_stmts(stmt.cond))
         IN  CASE stmt.k = "LoopStmt" ->
                    /\ Len(ir) >= 2
                    /\ ir[1].k = "LoopStmt" /\ ir[2].k = "LabelStmt"
                    /\ LoopsLowered(stmt.body, ir[1].stmts, Enclosing(loops, stmt, ir[2]))
                    /\ LoopsLowered(Tail(src), SubSeq(ir, 3, Len(ir)), loops)
               [] stmt.k = "WhileLoopStmt" ->
                    /\ Len(ir) >= 3
                    /\ ir[1].k = "LoopStmt" /\ ir[2] = AssumeNotStmt(NoNode)
                    /\ ir[3].k = "LabelStmt"
                    /\ Len(ir[1].stmts) > pre
                    /\ \A n \in 1..pre : ir[1].stmts[n].k = "AssignStmt"
                    /\ ir[1].stmts[pre + 1] = AssumeStmt(NoNode)
                    /\ LoopsLowered(stmt.body, SubSeq(ir[1].stmts, pre + 2, Len(ir[1].stmts)),
                                    Enclosing(loops, stmt, ir[3]))
                    /\ LoopsLowered(Tail(src), SubSeq(ir, 4, Len(ir)), loops)
               [] stmt.k = "ExitStmt" ->
                    /\ Len(ir) >= 1
                    /\ IF stmt.cond = "none" THEN IsGotoTo(ir[1], Target(stmt, loops))
                       ELSE /\ ir[1].k = "SplitStmt"
                            /\ Len(ir[1].stmts) = 2
                            /\ ir[1].stmts[1] = AssumeStmt(NoNode)
                            /\ IsGotoTo(ir[1].stmts[2], Target(stmt, loops))
                            /\ ir[1].alt = <<AssumeNotStmt(NoNode)>>
                    /\ LoopsLowered(Tail(src), Tail(ir), loops)
               [] OTHER ->
                    /\ Len(ir) >= 1
                    /\ ir[1].k = "AssignStmt"
                    /\ LoopsLowered(Tail(src), Tail(ir), loops)

\* the names of the LabelStmts of the program, one entry for each LabelStmt
RECURSIVE LabelSeq(_)
LabelSeq(stmts) ==
    IF stmts = <<>> THEN <<>>
    ELSE (IF Head(stmts).k = "LabelStmt" THEN <<Head(stmts).label>> ELSE <<>>)
         \o LabelSeq(Head(stmts).stmts) \o LabelSeq(Head(stmts).alt) \o LabelSeq(Tail(stmts))

\* C25: a while loop lowers to LoopStmt(pre-statements of C + [assume(C)] + S), then
\* assume(not C), then its exit label; an exit lowers to a goto to the exit label of the
\* innermost enclosing loop, or of the loop it names, inside a split when it has a
\* condition; every loop has an exit label of its own.
C25_LoopsAndExits ==
    AfterGenIr =>
        /\ LoopsLowered(last.subp.stmts, SubSeq(last.program, 1, Len(last.program) - 1), <<>>)
        /\ \A n, m \in DOMAIN LabelSeq(last.program) :
                LabelSeq(last.program)[n] = LabelSeq(last.program)[m] => n = m

\* a while loop whose condition has a pre-statement holds a loop with a conditional exit
\* that names the while loop
C25_Witness ==
    /\ AfterGenIr
    /\ last.subp.stmts[1].k = "WhileLoopStmt"
    /\ last.subp.stmts[1].cond = "call"
    /\ last.subp.stmts[1].label = "Outer"
    /\ \E exit \in ExitStmts({"Outer"}) :
        /\ exit.label = "Outer" /\ exit.cond = "ok"
        /\ last.subp.stmts[1].body[1].body = <<exit>>

\* ---- C30 ----
AfterReport == last.op = "format_analysis_results"

\* the names fresh_name gives to the temporaries of the lowering
TemporaryNames ==
    {fresh_name(base, [tmp |-> k, unimpl |-> k, unknown |-> k, ret |-> k]) :
        base \in {"tmp", "unimpl", "unknown", "ret"}, k \in 0..MaxRets}

\* the variables with the name of a temporary are the ones that carry SyntheticVariable
TemporariesTagged(program) ==
    \A var \in ProgramVariables(program) : var.name \in TemporaryNames <=> is_purpose_of(var)

\* the variables an environment holds that are not synthetic
Listed(values) == {values[n][1] : n \in {m \in DOMAIN values : ~is_purpose_of(values[m][1])}}

\* the entry of report written for the trace of node has the names of the trace and, as
\* values, one item for each variable of the environment that is not synthetic
EntryOf(report, node, trace, values) ==
    \E n \in DOMAIN report :
        /\ report[n][1] = node.name
        /\ \E k \in DOMAIN report[n][2] :
            LET entry == report[n][2][k]
            IN  /\ entry.trace = sorted_names(trace)
                /\ \A item \in DOMAIN values :
                    LET var == values[item][1]
                    IN  IF is_purpose_of(var)
                        THEN \A listed \in entry.values : listed[1] # var.name
                        ELSE <<var.name, values[item][2]>> \in entry.values
                /\ Cardinality(entry.values) = Cardinality(Listed(values))

\* the nodes of the report are in the order of their names, the entries of a node in the
\* order of their traces
ReportSorted(report, semantics) ==
    /\ \A n, m \in DOMAIN report : n < m => name_rank(report[n][1]) < name_rank(report[m][1])
    /\ \A n \in DOMAIN semantics :
        LET state == semantics[n][2]
            entries == CHOOSE e \in {report[m][2] : m \in {m \in DOMAIN report :
                                        report[m][1] = semantics[n][1].name}} : TRUE
        IN  \A k, l \in DOMAIN state :
                trace_rank(state[k][1]) < trace_rank(state[l][1]) =>
                    \E i, j \in DOMAIN entries :
                        /\ i < j
                        /\ entries[i].trace = sorted_names(state[k][1])
                        /\ entries[j].trace = sorted_names(state[l][1])

\* the report does not depend on the order in which the dicts of the results are iterated
ReportOfResults ==
    \A upwards, n1_first, short_first \in BOOLEAN :
        format_analysis_results(Semantics(ProgramVariables(last.program), last.precise,
                                          upwards, n1_first, short_first)) = last.report

ReportComplete ==
    /\ \A n \in DOMAIN last.semantics :
        \A k \in DOMAIN last.semantics[n][2] :
            EntryOf(last.report, last.semantics[n][1], last.semantics[n][2][k][1],
                    last.semantics[n][2][k][2])
    /\ ReportSorted(last.report, last.semantics)
    /\ ReportOfResults

\* C30: the tmp, unimpl, unknown and ret variables of the lowering carry SyntheticVariable;
\* for every node and trace the report lists each variable of the environment that is not
\* synthetic and no synthetic one, with the nodes ordered by name and the traces sorted,
\* so that it is the same for identical results.
C30_SyntheticOmitted == AfterReport => TemporariesTagged(last.program) /\ ReportComplete

\* two variables of the environment that are not synthetic have the same name
SameName(program) ==
    \E v, w \in ProgramVariables(program) :
        v # w /\ v.name = w.name /\ ~is_purpose_of(v) /\ ~is_purpose_of(w)

\* C30, for environments whose variables that are not synthetic have names of their own:
\* the temporaries carry SyntheticVariable, and the report lists each variable that is not
\* synthetic and no synthetic one, sorted, the same for identical results.
C30_SyntheticOmittedUnlessSameName ==
    AfterReport /\ ~SameName(last.program) => TemporariesTagged(last.program) /\ ReportComplete

\* C30: the temporaries of every lowered body of G carry SyntheticVariable
C30_TemporariesTagged == AfterBody => TemporariesTagged(last.program)

\* a report of an environment that holds a ret and a tmp variable
C30_Witness ==
    /\ AfterReport
    /\ ~SameName(last.program)
    /\ \E v, w \in ProgramVariables(last.program) :
        /\ v.name = "ret0" /\ w.name = "tmp0"
        /\ is_purpose_of(v) /\ is_purpose_of(w)
    /\ last.precise

====
